---- MODULE Spec2Model ----
(***************************************************************************)
(* Model of the transaction dispatch and wallet correlation code of the    *)
(* lending dashboard:                                                      *)
(*   - components/toolkit_lib/pool_tools.py : unit conversion helpers and  *)
(*     the LendingPool tool handlers (build_lending_pool_toolkit);         *)
(*   - components/mcp_lib/wallet_section.py : the MetaMask wallet slot     *)
(*     (render_wallet_section), one Streamlit script run per step.         *)
(* Five specifications share the variables: SpecUnits (the conversion      *)
(* helpers on arbitrary-precision integers), SpecTools (one handler        *)
(* invocation per step), SpecWallet (one render per step), SpecNonce (the  *)
(* local signing path of two sessions, one network call per step) and      *)
(* SpecRunner (one press of "Run MCP tool" per step).                      *)
(***************************************************************************)
EXTENDS Integers, Sequences, FiniteSets, TLC

VARIABLES
    units,      \* SpecUnits: the conversion in progress
    pc,         \* SpecTools: "idle" | "returned"
    inv,        \* SpecTools: the last handler invocation and what it did
    clock,      \* SpecWallet: time() in milliseconds
    mm_state,   \* SpecWallet: the slot's mm_state dictionary
    session,    \* SpecWallet: st.session_state[DEFAULT_SESSION_KEY]
    issued,     \* SpecWallet: history of the commands issued in the slot
    run,        \* SpecWallet: inputs and outputs of the last script run
    chain,      \* SpecNonce: the network's transaction counts and accepted transactions
    proc,       \* SpecNonce: the handler invocation in progress in each session
    runner      \* SpecRunner: what the "Run MCP tool" button did and displayed

vars == <<units, pc, inv, clock, mm_state, session, issued, run, chain, proc, runner>>

None == "None"

(***************************************************************************)
(* Python integers and decimal.Decimal values.  An integer is the sequence *)
(* of its decimal digits, most significant first, without leading zeros    *)
(* (<<>> is 0), so that values beyond the machine word are exact.  A       *)
(* finite Decimal is coef * 10^exp; the default context rounds the result  *)
(* of every arithmetic operation to Prec significant digits, half-even.    *)
(***************************************************************************)
Prec == 28

RECURSIVE Zeros(_)
Zeros(k) == IF k <= 0 THEN <<>> ELSE <<0>> \o Zeros(k - 1)

RECURSIVE Strip(_)
Strip(c) == IF c # <<>> /\ Head(c) = 0 THEN Strip(Tail(c)) ELSE c

AllZero(c) == \A i \in 1..Len(c) : c[i] = 0

RECURSIVE AddOne(_)
AddOne(c) ==
    IF c = <<>> THEN <<1>>
    ELSE LET L == Len(c) IN
         IF c[L] < 9 THEN [c EXCEPT ![L] = c[L] + 1]
         ELSE AddOne(SubSeq(c, 1, L - 1)) \o <<0>>

Dec(coef, exp) == [kind |-> "fin", neg |-> FALSE, coef |-> Strip(coef), exp |-> exp]
DecNaN == [kind |-> "nan", neg |-> FALSE, coef |-> <<>>, exp |-> 0]
DecInf == [kind |-> "inf", neg |-> FALSE, coef |-> <<>>, exp |-> 0]

\* Rounding of an exact result to the context precision (ROUND_HALF_EVEN).
Round(coef, exp) ==
    LET c == Strip(coef)
        L == Len(c)
    IN  IF L <= Prec THEN Dec(c, exp)
        ELSE LET kept == SubSeq(c, 1, Prec)
                 rest == SubSeq(c, Prec + 1, L)
                 tail == SubSeq(rest, 2, Len(rest))
                 up   == \/ rest[1] > 5
                         \/ rest[1] = 5 /\ ~AllZero(tail)
                         \/ rest[1] = 5 /\ AllZero(tail) /\ kept[Prec] % 2 = 1
                 r    == IF up THEN AddOne(kept) ELSE kept
             IN  IF Len(r) > Prec
                 THEN Dec(SubSeq(r, 1, Prec), exp + (L - Prec) + 1)
                 ELSE Dec(r, exp + (L - Prec))

\* x * scale and x / scale for scale == Decimal(10) ** int(decimals), an exact
\* power of ten: the exact product or quotient, rounded to the context.
DecMulScale(x, decimals) ==
    IF x.kind # "fin" THEN x
    ELSE [Round(x.coef \o Zeros(decimals), x.exp) EXCEPT !.neg = x.neg]

DecDivScale(x, decimals) ==
    IF x.kind # "fin" THEN x
    ELSE [Round(x.coef, x.exp - decimals) EXCEPT !.neg = x.neg]

\* int(Decimal): truncation toward zero; raises on NaN (ValueError) and on
\* an infinity (OverflowError).
Raised == [raised |-> TRUE, neg |-> FALSE, digits |-> <<>>]
IntOf(neg, digits) == [raised |-> FALSE, neg |-> neg /\ Strip(digits) # <<>>, digits |-> Strip(digits)]

DecToInt(x) ==
    IF x.kind # "fin" THEN Raised
    ELSE IF x.exp >= 0 THEN IntOf(x.neg, x.coef \o Zeros(x.exp))
    ELSE IF -x.exp >= Len(x.coef) THEN IntOf(x.neg, <<>>)
    ELSE IntOf(x.neg, SubSeq(x.coef, 1, Len(x.coef) + x.exp))

(***************************************************************************)
(* pool_tools.py: the unit conversion helpers.  `decimals` is the exponent *)
(* the use_native flag selects (native_decimals or token_decimals).  An    *)
(* amount is a Decimal, or a text that does not parse as a number.         *)
(***************************************************************************)
Text == [kind |-> "text", neg |-> FALSE, coef |-> <<>>, exp |-> 0]

\* int(amount), the fallback of the except branch: a Decimal truncates, a
\* text that is no number raises ValueError out of the helper.
IntOfAmount(amount) == IF amount.kind = "text" THEN Raised ELSE DecToInt(amount)

to_token_units_truncating(amount, decimals) == IntOfAmount(amount)

to_token_units(amount, decimals) ==
    IF amount.kind = "text" THEN IntOfAmount(amount)
    ELSE LET r == DecToInt(DecMulScale(amount, decimals))
         IN  IF r.raised THEN IntOfAmount(amount) ELSE r

from_token_units(n, decimals) ==
    IF Strip(n) = <<>> THEN Dec(<<>>, 0)
    ELSE DecDivScale(Dec(n, 0), decimals)

(***************************************************************************)
(* pool_tools.py: build_lending_pool_toolkit.  A toolkit is built from a   *)
(* configuration (keys and role addresses of the session) on every script  *)
(* run; a handler invocation reads the contract and the network, whose     *)
(* answers are the environment `env` of the invocation.                    *)
(***************************************************************************)
NativeDecimals == 18

Roles == {"Owner", "Lender", "Borrower"}

KeyOf == [Owner |-> "kO", Lender |-> "kL", Borrower |-> "kB"]
WalletOf == [Owner |-> "mO", Lender |-> "mL", Borrower |-> "mB"]

\* The address of a well-formed key ("bad" is a malformed key).
AddrOfKey(key) ==
    CASE key = "kO" -> "aO" [] key = "kL" -> "aL" [] key = "kB" -> "aB"
      [] key = "kD" -> "aD" [] key = "kE" -> "aE" [] OTHER -> None

\* Python's `a or b` on values that are None or a non-empty string.
Or(a, b) == IF a # None THEN a ELSE b

acct_for_key_accepting_malformed(key) ==
    IF key = None THEN None ELSE IF key = "bad" THEN "aX" ELSE AddrOfKey(key)

acct_for_key(key) ==
    IF key = None THEN None
    ELSE IF key = "bad" THEN None      \* from_key raises; except: return None
    ELSE AddrOfKey(key)

derived_private_key(cfg) == Or(cfg.private_key, cfg.env_key)

owner_key(cfg) == Or(cfg.role_private_keys.Owner, derived_private_key(cfg))
lender_key_with_default(cfg) == Or(cfg.role_private_keys.Lender, derived_private_key(cfg))

lender_key(cfg) == Or(cfg.role_private_keys.Lender, None)

borrower_key_with_default(cfg) == Or(cfg.role_private_keys.Borrower, derived_private_key(cfg))

borrower_key(cfg) == Or(cfg.role_private_keys.Borrower, None)

role_key(cfg, role) ==
    CASE role = "Owner" -> owner_key(cfg)
      [] role = "Lender" -> lender_key(cfg)
      [] role = "Borrower" -> borrower_key(cfg)

role_address(cfg, role) == Or(cfg.role_addresses[role], acct_for_key(role_key(cfg, role)))

\* Web3.to_checksum_address(a) raises ValueError unless a is an address.
IsAddress(a) == a \notin {None, "bad"}

BaseCfg ==
    [private_key |-> None, env_key |-> None,
     role_private_keys |-> [Owner |-> "kO", Lender |-> "kL", Borrower |-> "kB"],
     role_addresses |-> [Owner |-> None, Lender |-> None, Borrower |-> None]]

\* The configurations an invocation of a handler of `role` is tried under: the
\* role's key and address vary, the other roles stay configured.
RoleCfgs(role) ==
    {[BaseCfg EXCEPT !.role_private_keys[role] = k, !.role_addresses[role] = a,
                     !.private_key = p] :
        k \in {None, "bad", KeyOf[role]},
        a \in {None, AddrOfKey(KeyOf[role]), WalletOf[role], "bad"},
        p \in {None, "kD"}}
    \cup
    {[BaseCfg EXCEPT !.role_private_keys[role] = None, !.role_addresses[role] = a,
                     !.env_key = "kE"] : a \in {None, WalletOf[role]}}

(***************************************************************************)
(* messages.py (tool_success, tool_error): the result envelope.  `sent` is *)
(* set when the payload is a broadcast result, whose own "error" and       *)
(* "txHash" fields are sentError and txHash; `metamask` when the payload   *)
(* holds a "metamask" request, `data` the fields a read handler reports.    *)
(***************************************************************************)
NoPayload ==
    [sent |-> FALSE, txHash |-> None, sentError |-> None, hint |-> None, metamask |-> FALSE,
     data |-> <<>>]

tool_success(payload) ==
    [raised |-> FALSE, success |-> TRUE, sent |-> payload.sent, txHash |-> payload.txHash,
     sentError |-> payload.sentError, hint |-> payload.hint, metamask |-> payload.metamask,
     data |-> payload.data, error |-> None, detail |-> None]

tool_error(code, detail) ==
    [raised |-> FALSE, success |-> FALSE, sent |-> FALSE, txHash |-> None,
     sentError |-> None, hint |-> None, metamask |-> FALSE,
     data |-> <<>>, error |-> code, detail |-> detail]

\* The handler did not return: an exception left it.
RaisedResult ==
    [raised |-> TRUE, success |-> FALSE, sent |-> FALSE, txHash |-> None,
     sentError |-> None, hint |-> None, metamask |-> FALSE,
     data |-> <<>>, error |-> None, detail |-> None]

IsSent(r) == ~r.raised /\ r.success /\ r.sent
IsPending(r) == ~r.raised /\ r.success /\ r.metamask
IsFailed(r) == ~r.raised /\ ~r.success /\ r.error # None

(***************************************************************************)
(* A contract call: function name, positional arguments (an address, an    *)
(* amount in base units, an integer; those the function does not take are  *)
(* absent) and the attached value.                                         *)
(***************************************************************************)
NoInt == [raised |-> TRUE, neg |-> FALSE, digits |-> <<>>]

Call(fn, addr, amount, n, value) ==
    [fn |-> fn, addr |-> addr, amount |-> amount, n |-> n, value |-> value]

NoCall == Call(None, None, NoInt, -1, NoInt)

NoTx == [built |-> FALSE, call |-> NoCall, from |-> None, signed_with |-> None, broadcast |-> FALSE]

NoReq == [built |-> FALSE, call |-> NoCall, from |-> None, chainId |-> FALSE]

\* What one invocation did: the envelope it returned, the network calls it
\* made in order, the transaction it built and signed, the MetaMask request
\* it built, and the address whose status it read.
Out(result, calls, tx, req, status_address) ==
    [result |-> result, calls |-> calls, tx |-> tx, req |-> req,
     status_address |-> status_address]

Fail(calls, code, detail) == Out(tool_error(code, detail), calls, NoTx, NoReq, None)

(***************************************************************************)
(* tx_helpers.py (next_nonce, fee_params, sign_and_send) and the local     *)
(* signing path every write handler repeats.  env.local says at which      *)
(* step the path fails, if at any, and how: "exc" (an exception: network   *)
(* error), "revert" (ContractLogicError) or "errdict" (sign_and_send       *)
(* returns a dictionary with an "error" field); env.local.reason is the    *)
(* text of the exception or of the "error" field.                          *)
(***************************************************************************)
LocalSteps(feesFirst) ==
    IF feesFirst THEN <<"fees", "nonce", "chain_id", "build", "sign_send">>
    ELSE <<"nonce", "chain_id", "fees", "build", "sign_send">>

NoFailure == [at |-> "none", how |-> "exc", reason |-> None]

LocalOutcomes ==
    {NoFailure}
    \cup {[at |-> s, how |-> "exc", reason |-> "connection timed out"] :
            s \in {"fees", "nonce", "chain_id", "build", "sign_send"}}
    \cup {[at |-> "build", how |-> "revert", reason |-> r] :
            r \in {"execution reverted: locked", "execution reverted: paused"}}
    \cup {[at |-> "sign_send", how |-> "revert", reason |-> "execution reverted: locked"],
          [at |-> "sign_send", how |-> "errdict", reason |-> "nonce too low"]}

IndexOf(seq, x) == CHOOSE i \in 1..Len(seq) : seq[i] = x

\* sign_and_send's dictionary.
SentDict(local) ==
    IF local.at = "none"
    THEN [NoPayload EXCEPT !.sent = TRUE, !.txHash = "0xtx"]
    ELSE [NoPayload EXCEPT !.sent = TRUE, !.sentError = local.reason]

ReturnSentUnchecked(sent, op, hint) == tool_success([sent EXCEPT !.hint = hint])

\* return tool_success(sent) if "error" not in sent else tool_error(sent.get("error", ...))
ReturnSent(sent, op, hint) ==
    IF sent.sentError = None THEN tool_success([sent EXCEPT !.hint = hint])
    ELSE tool_error(sent.sentError, op)

local_path_falling_through(op, feesFirst, key, signer, call, sent_hint, env, pre, status_address) ==
    LET steps == LocalSteps(feesFirst)
        at    == env.local.at
        calls == IF at = "none" THEN steps ELSE SubSeq(steps, 1, IndexOf(steps, at))
        built == at \in {"none", "sign_send"}
        tx    == [built |-> built, call |-> IF built THEN call ELSE NoCall,
                  from |-> IF built THEN signer ELSE None,
                  signed_with |-> IF built THEN key ELSE None,
                  broadcast |-> built]
    IN  IF at = "none"
        THEN Out(ReturnSent(SentDict(env.local), op, sent_hint), pre \o calls, tx, NoReq,
                 status_address)
        ELSE Out(tool_success([NoPayload EXCEPT !.metamask = TRUE]),
                 pre \o calls \o <<"mm_build", "chain_id">>, tx,
                 [built |-> TRUE, call |-> call, from |-> signer, chainId |-> TRUE],
                 status_address)

local_path_fixed_message(op, feesFirst, key, signer, call, sent_hint, env, pre, status_address) ==
    LET steps == LocalSteps(feesFirst)
        at    == env.local.at
        how   == env.local.how
        calls == IF at = "none" THEN steps ELSE SubSeq(steps, 1, IndexOf(steps, at))
        built == at \in {"none", "sign_send"}
        tx    == [built |-> built, call |-> IF built THEN call ELSE NoCall,
                  from |-> IF built THEN signer ELSE None,
                  signed_with |-> IF built THEN key ELSE None,
                  broadcast |-> built]
        result ==
            IF at = "none" \/ how = "errdict" THEN ReturnSent(SentDict(env.local), op, sent_hint)
            ELSE IF how = "revert" THEN tool_error("Contract rejected", "execution reverted")
            ELSE tool_error("failed", op)
    IN  Out(result, pre \o calls, tx, NoReq, status_address)

local_path(op, feesFirst, key, signer, call, sent_hint, env, pre, status_address) ==
    LET steps == LocalSteps(feesFirst)
        at    == env.local.at
        how   == env.local.how
        calls == IF at = "none" THEN steps ELSE SubSeq(steps, 1, IndexOf(steps, at))
        built == at \in {"none", "sign_send"}
        tx    == [built |-> built, call |-> IF built THEN call ELSE NoCall,
                  from |-> IF built THEN signer ELSE None,
                  signed_with |-> IF built THEN key ELSE None,
                  broadcast |-> built]
        result ==
            IF at = "none" \/ how = "errdict" THEN ReturnSent(SentDict(env.local), op, sent_hint)
            ELSE IF how = "revert" THEN tool_error("Contract rejected", env.local.reason)
            ELSE tool_error("failed", op)
    IN  Out(result, pre \o calls, tx, NoReq, status_address)

\* metamask_tx_request(pool_contract, fn, args, value_wei, from_address)
\* followed by _metamask_success (which reads
\* w3.eth.chain_id); env.mm = "exc" when building the request raises.
delegated_path(fn, call, from_address, hint, env, pre, status_address) ==
    IF env.mm = "exc"
    THEN Out(tool_error("Unable to build MetaMask tx", fn), pre \o <<"mm_build">>, NoTx, NoReq,
             status_address)
    ELSE Out(tool_success([NoPayload EXCEPT !.metamask = TRUE, !.hint = hint]),
             pre \o <<"mm_build", "chain_id">>, NoTx,
             [built |-> TRUE, call |-> call, from |-> from_address, chainId |-> TRUE],
             status_address)

\* The dispatch every write handler ends with: the local path (which builds
\* `call`) when the role's key yields an address, else the delegated path
\* (which builds `mm_call`) when a role address is configured, else "wallet
\* not configured".  Only repay adds
\* its hint to the broadcast result (sent.setdefault("hint", hint)).
dispatch_delegated_first(op, role, feesFirst, cfg, call, mm_call, hint, env, pre, status_address) ==
    LET key    == role_key(cfg, role)
        signer == acct_for_key(key)
        addr   == role_address(cfg, role)
    IN  IF addr # None
        THEN delegated_path(op, mm_call, addr, hint, env, pre, status_address)
        ELSE IF signer # None /\ key # None
        THEN local_path(op, feesFirst, key, signer, call,
                        IF op = "repay" THEN hint ELSE None, env, pre, status_address)
        ELSE Out(tool_error("wallet not configured", role), pre, NoTx, NoReq, status_address)

dispatch(op, role, feesFirst, cfg, call, mm_call, hint, env, pre, status_address) ==
    LET key    == role_key(cfg, role)
        signer == acct_for_key(key)
        addr   == role_address(cfg, role)
    IN  IF signer # None /\ key # None
        THEN local_path(op, feesFirst, key, signer, call,
                        IF op = "repay" THEN hint ELSE None, env, pre, status_address)
        ELSE IF addr # None
        THEN delegated_path(op, mm_call, addr, hint, env, pre, status_address)
        ELSE Out(tool_error("wallet not configured", role), pre, NoTx, NoReq, status_address)

(***************************************************************************)
(* The contract's views.  env.loan is the borrower's loan as the contract  *)
(* holds it, env.lender the lender's figures; a view that is not ok raises *)
(* (RPC failure or revert), in the fallback sequence at its call number    *)
(* env.loan_fail_at, env.lender_fail_at.                                   *)
(***************************************************************************)
RECURSIVE NatDigits(_)
NatDigits(n) == IF n = 0 THEN <<>> ELSE NatDigits(n \div 10) \o <<n % 10>>

NatInt(n) == IntOf(FALSE, NatDigits(n))

\* a > b on non-negative integers.
DigitsGT(a, b) ==
    \/ Len(a) > Len(b)
    \/ /\ Len(a) = Len(b)
       /\ \E i \in 1..Len(a) : a[i] > b[i] /\ \A j \in 1..(i - 1) : a[j] = b[j]

IntGT(x, y) == DigitsGT(x.digits, y.digits)

\* loanStatus(address): (active, principal, outstanding, startTime, dueTime, banned)
LoanStatusView(loan) ==
    <<loan.active, loan.principal, loan.outstanding, loan.startTime, loan.dueTime, loan.banned>>

\* getLoan(address): (principal, outstanding, startTime, dueTime, active)
GetLoanView(loan) ==
    <<loan.principal, loan.outstanding, loan.startTime, loan.dueTime, loan.active>>

loan_status_misordered(env) ==
    IF env.loanStatusExposed
    THEN [ok |-> env.loan_ok, calls |-> <<"view:loanStatus">>,
          t |-> IF env.loan_ok THEN LoanStatusView(env.loan) ELSE <<>>]
    ELSE IF ~env.loan_ok
    THEN [ok |-> FALSE, t |-> <<>>,
          calls |-> SubSeq(<<"view:getLoan", "view:isBanned">>, 1, env.loan_fail_at)]
    ELSE LET g == GetLoanView(env.loan)
         IN  [ok |-> TRUE, calls |-> <<"view:getLoan", "view:isBanned">>,
              t |-> <<g[5], g[2], g[1], g[3], g[4], env.loan.banned>>]

loan_status(env) ==
    IF env.loanStatusExposed
    THEN [ok |-> env.loan_ok, calls |-> <<"view:loanStatus">>,
          t |-> IF env.loan_ok THEN LoanStatusView(env.loan) ELSE <<>>]
    ELSE IF ~env.loan_ok
    THEN [ok |-> FALSE, t |-> <<>>,
          calls |-> SubSeq(<<"view:getLoan", "view:isBanned">>, 1, env.loan_fail_at)]
    ELSE LET g == GetLoanView(env.loan)
         IN  [ok |-> TRUE, calls |-> <<"view:getLoan", "view:isBanned">>,
              t |-> <<g[5], g[1], g[2], g[3], g[4], env.loan.banned>>]

\* lenderStatus(address): (totalDeposited, totalWithdrawn, balance, unlockable)
lender_status(env) ==
    IF env.lenderStatusExposed
    THEN [ok |-> env.lender_ok, calls |-> <<"view:lenderStatus">>,
          t |-> IF env.lender_ok THEN env.lender ELSE <<>>]
    ELSE IF ~env.lender_ok
    THEN [ok |-> FALSE, t |-> <<>>,
          calls |-> SubSeq(<<"view:totalDeposited", "view:totalWithdrawn", "view:lenderBalance",
                             "view:previewWithdraw">>, 1, env.lender_fail_at)]
    ELSE [ok |-> TRUE,
          calls |-> <<"view:totalDeposited", "view:totalWithdrawn", "view:lenderBalance",
                      "view:previewWithdraw">>,
          t |-> <<env.lender[1], env.lender[2], env.lender[3], env.lender[4]>>]

\* "active loan" in reason.lower()
MentionsActiveLoan(reason) ==
    reason \in {"Borrower has an active loan outstanding", "Active loan exists"}

can_open_loan_no_active_check(env, principal_units) ==
    IF ~env.canOpenLoanExposed
    THEN LET st == loan_status(env)
         IN  IF ~st.ok
             THEN [ok |-> FALSE, reason |-> "Unable to read loan status", calls |-> st.calls]
             ELSE IF st.t[6]
             THEN [ok |-> FALSE, reason |-> "Borrower is banned", calls |-> st.calls]
             ELSE IF ~env.liquidity_ok
             THEN [ok |-> FALSE, reason |-> "Unable to evaluate loan conditions",
                   calls |-> st.calls \o <<"view:availableLiquidity">>]
             ELSE IF IntGT(principal_units, NatInt(env.liquidity))
             THEN [ok |-> FALSE, reason |-> "Insufficient pool liquidity",
                   calls |-> st.calls \o <<"view:availableLiquidity">>]
             ELSE [ok |-> TRUE, reason |-> "OK",
                   calls |-> st.calls \o <<"view:availableLiquidity">>]
    ELSE IF ~env.canOpen_ok
    THEN [ok |-> FALSE, reason |-> "Unable to evaluate loan conditions",
          calls |-> <<"view:canOpenLoan">>]
    ELSE [ok |-> env.canOpen.ok, reason |-> env.canOpen.reason, calls |-> <<"view:canOpenLoan">>]

can_open_loan(env, principal_units) ==
    IF ~env.canOpenLoanExposed
    THEN LET st == loan_status(env)
         IN  IF ~st.ok
             THEN [ok |-> FALSE, reason |-> "Unable to read loan status", calls |-> st.calls]
             ELSE IF st.t[6]
             THEN [ok |-> FALSE, reason |-> "Borrower is banned", calls |-> st.calls]
             ELSE IF st.t[1] /\ st.t[3] # 0
             THEN [ok |-> FALSE, reason |-> "Borrower has an active loan outstanding",
                   calls |-> st.calls]
             ELSE IF ~env.liquidity_ok
             THEN [ok |-> FALSE, reason |-> "Unable to evaluate loan conditions",
                   calls |-> st.calls \o <<"view:availableLiquidity">>]
             ELSE IF IntGT(principal_units, NatInt(env.liquidity))
             THEN [ok |-> FALSE, reason |-> "Insufficient pool liquidity",
                   calls |-> st.calls \o <<"view:availableLiquidity">>]
             ELSE [ok |-> TRUE, reason |-> "OK",
                   calls |-> st.calls \o <<"view:availableLiquidity">>]
    ELSE IF ~env.canOpen_ok
    THEN [ok |-> FALSE, reason |-> "Unable to evaluate loan conditions",
          calls |-> <<"view:canOpenLoan">>]
    ELSE [ok |-> env.canOpen.ok, reason |-> env.canOpen.reason, calls |-> <<"view:canOpenLoan">>]

(***************************************************************************)
(* The write handlers.                                                     *)
(***************************************************************************)
\* amt_decimal <= Decimal("0"); the comparison raises InvalidOperation on NaN.
DecLeZero(x) == IF x.kind = "fin" THEN x.neg \/ x.coef = <<>> ELSE x.neg

ParseAmount_no_sign_check(amount) ==
    IF amount.kind = "text" THEN [status |-> "invalid", units |-> NoInt]
    ELSE IF amount.kind = "nan" THEN [status |-> "raise", units |-> NoInt]
    ELSE LET u == to_token_units(amount, NativeDecimals)
         IN  IF u.raised THEN [status |-> "invalid_units", units |-> NoInt]
             ELSE [status |-> "ok", units |-> u]

\* The amount validation deposit, withdraw and openLoan start with.
ParseAmount(amount) ==
    IF amount.kind = "text" THEN [status |-> "invalid", units |-> NoInt]
    ELSE IF amount.kind = "nan" THEN [status |-> "raise", units |-> NoInt]
    ELSE IF DecLeZero(amount) THEN [status |-> "not_positive", units |-> NoInt]
    ELSE LET u == to_token_units(amount, NativeDecimals)
         IN  IF u.raised THEN [status |-> "invalid_units", units |-> NoInt]
             ELSE [status |-> "ok", units |-> u]

AmountFailure(p, calls) ==
    CASE p.status = "invalid" -> Fail(calls, "Invalid amount supplied", "enter a numeric value")
      [] p.status = "not_positive" -> Fail(calls, "Amount must be greater than zero", None)
      [] p.status = "invalid_units" -> Fail(calls, "Invalid amount", "cannot convert")
      [] p.status = "raise" -> Out(RaisedResult, calls, NoTx, NoReq, None)

deposit_tool_no_value(amount, cfg, env) ==
    LET p == ParseAmount(amount)
    IN  IF p.status # "ok" THEN AmountFailure(p, <<>>)
        ELSE dispatch("deposit", "Lender", FALSE, cfg,
                      Call("deposit", None, p.units, -1, p.units),
                      Call("deposit", None, p.units, -1, NoInt),
                      "deposit native USDC", env, <<>>, None)

deposit_tool(amount, cfg, env) ==
    LET p == ParseAmount(amount)
    IN  IF p.status # "ok" THEN AmountFailure(p, <<>>)
        ELSE dispatch("deposit", "Lender", FALSE, cfg,
                      Call("deposit", None, p.units, -1, p.units),
                      Call("deposit", None, p.units, -1, p.units),
                      "deposit native USDC", env, <<>>, None)

withdraw_status_address_no_fallback(cfg) ==
    LET la == role_address(cfg, "Lender")
    IN  IF cfg.role_addresses.Lender # None /\ IsAddress(la) THEN la ELSE None

withdraw_status_address(cfg) ==
    LET la == role_address(cfg, "Lender")
        signer == acct_for_key(lender_key(cfg))
    IN  IF la # None /\ IsAddress(la) THEN la ELSE signer

withdraw_tool(amount, cfg, env) ==
    LET p == ParseAmount(amount)
        sa == withdraw_status_address(cfg)
        st == lender_status(env)
        pre == IF sa # None THEN st.calls ELSE <<>>
    IN  IF p.status # "ok" THEN AmountFailure(p, <<>>)
        ELSE IF sa # None /\ st.ok /\ IntGT(p.units, NatInt(st.t[4]))
        THEN Out(tool_error("Requested withdrawal exceeds unlocked balance", "available"),
                 pre, NoTx, NoReq, sa)
        ELSE dispatch("withdraw", "Lender", FALSE, cfg,
                      Call("withdraw", None, p.units, -1, NoInt),
                      Call("withdraw", None, p.units, -1, NoInt),
                      "withdraw unlocked funds", env, pre, sa)

openLoan_tool_signer_first(borrower_address, principal, term_seconds, cfg, env) ==
    LET p   == ParseAmount(principal)
        can == can_open_loan(env, p.units)
        st  == loan_status(env)
    IN  IF ~IsAddress(borrower_address)
        THEN Fail(<<>>, "Invalid borrower address supplied", None)
        ELSE IF p.status # "ok" THEN AmountFailure(p, <<>>)
        ELSE IF acct_for_key(owner_key(cfg)) = None /\ role_address(cfg, "Owner") = None
        THEN Fail(<<>>, "wallet not configured", "Owner")
        ELSE IF ~can.ok
        THEN IF MentionsActiveLoan(can.reason) /\ st.ok
             THEN Fail(can.calls \o st.calls,
                       "Cannot open loan: borrower has an active loan outstanding", None)
             ELSE IF MentionsActiveLoan(can.reason)
             THEN Fail(can.calls \o st.calls, "Cannot open loan", can.reason)
             ELSE Fail(can.calls, "Cannot open loan", can.reason)
        ELSE dispatch("openLoan", "Owner", TRUE, cfg,
                      Call("openLoan", borrower_address, p.units, term_seconds, NoInt),
                      Call("openLoan", borrower_address, p.units, term_seconds, NoInt),
                      "open a loan", env, can.calls, None)

openLoan_tool(borrower_address, principal, term_seconds, cfg, env) ==
    LET p   == ParseAmount(principal)
        can == can_open_loan(env, p.units)
        st  == loan_status(env)
    IN  IF ~IsAddress(borrower_address)
        THEN Fail(<<>>, "Invalid borrower address supplied", None)
        ELSE IF p.status # "ok" THEN AmountFailure(p, <<>>)
        ELSE IF ~can.ok
        THEN IF MentionsActiveLoan(can.reason) /\ st.ok
             THEN Fail(can.calls \o st.calls,
                       "Cannot open loan: borrower has an active loan outstanding", None)
             ELSE IF MentionsActiveLoan(can.reason)
             THEN Fail(can.calls \o st.calls, "Cannot open loan", can.reason)
             ELSE Fail(can.calls, "Cannot open loan", can.reason)
        ELSE dispatch("openLoan", "Owner", TRUE, cfg,
                      Call("openLoan", borrower_address, p.units, term_seconds, NoInt),
                      Call("openLoan", borrower_address, p.units, term_seconds, NoInt),
                      "open a loan", env, can.calls, None)

repay_tool_paying_principal(cfg, env) ==
    LET borrower_addr == Or(role_address(cfg, "Borrower"), acct_for_key(borrower_key(cfg)))
        st == loan_status(env)
    IN  IF borrower_addr = None
        THEN Fail(<<>>, "wallet not configured", "Borrower")
        ELSE IF ~IsAddress(borrower_addr)
        THEN Fail(<<>>, "Borrower address is not valid", None)
        ELSE IF ~st.ok
        THEN Out(tool_error("Unable to read borrower loan status", None), st.calls, NoTx, NoReq,
                 borrower_addr)
        ELSE IF st.t[6]
        THEN Out(tool_error("Borrower is banned", None), st.calls, NoTx, NoReq, borrower_addr)
        ELSE IF ~st.t[1] \/ st.t[3] = 0
        THEN Out(tool_error("No active loan to repay", None), st.calls, NoTx, NoReq,
                 borrower_addr)
        ELSE dispatch("repay", "Borrower", FALSE, cfg,
                      Call("repay", None, NatInt(st.t[2]), -1, NatInt(st.t[2])),
                      Call("repay", None, NatInt(st.t[2]), -1, NatInt(st.t[2])),
                      "Repay outstanding balance", env, st.calls, borrower_addr)

repay_tool(cfg, env) ==
    LET borrower_addr == Or(role_address(cfg, "Borrower"), acct_for_key(borrower_key(cfg)))
        st == loan_status(env)
    IN  IF borrower_addr = None
        THEN Fail(<<>>, "wallet not configured", "Borrower")
        ELSE IF ~IsAddress(borrower_addr)
        THEN Fail(<<>>, "Borrower address is not valid", None)
        ELSE IF ~st.ok
        THEN Out(tool_error("Unable to read borrower loan status", None), st.calls, NoTx, NoReq,
                 borrower_addr)
        ELSE IF st.t[6]
        THEN Out(tool_error("Borrower is banned", None), st.calls, NoTx, NoReq, borrower_addr)
        ELSE IF ~st.t[1] \/ st.t[3] = 0
        THEN Out(tool_error("No active loan to repay", None), st.calls, NoTx, NoReq,
                 borrower_addr)
        ELSE dispatch("repay", "Borrower", FALSE, cfg,
                      Call("repay", None, NatInt(st.t[3]), -1, NatInt(st.t[3])),
                      Call("repay", None, NatInt(st.t[3]), -1, NatInt(st.t[3])),
                      "Repay outstanding balance", env, st.calls, borrower_addr)

checkDefaultAndBan_tool(borrower_address, cfg, env) ==
    IF ~IsAddress(borrower_address)
    THEN Fail(<<>>, "Invalid borrower address supplied", None)
    ELSE dispatch("checkDefaultAndBan", "Owner", TRUE, cfg,
                  Call("checkDefaultAndBan", borrower_address, NoInt, -1, NoInt),
                  Call("checkDefaultAndBan", borrower_address, NoInt, -1, NoInt),
                  "check default and ban", env, <<>>, None)

setDepositLockSeconds_tool(seconds, cfg, env) ==
    dispatch("setDepositLockSeconds", "Owner", FALSE, cfg,
             Call("setDepositLockSeconds", None, NoInt, seconds, NoInt),
             Call("setDepositLockSeconds", None, NoInt, seconds, NoInt),
             "update deposit lock duration", env, <<>>, None)

setTrustMintSbt_tool(sbt_address, cfg, env) ==
    IF ~IsAddress(sbt_address)
    THEN Fail(<<>>, "Invalid SBT address supplied", None)
    ELSE dispatch("setTrustMintSbt", "Owner", FALSE, cfg,
                  Call("setTrustMintSbt", sbt_address, NoInt, -1, NoInt),
             Call("setTrustMintSbt", sbt_address, NoInt, -1, NoInt),
                  "set TrustMint SBT address", env, <<>>, None)

setMinScoreToBorrow_tool(new_min_score, cfg, env) ==
    dispatch("setMinScoreToBorrow", "Owner", FALSE, cfg,
             Call("setMinScoreToBorrow", None, NoInt, new_min_score, NoInt),
             Call("setMinScoreToBorrow", None, NoInt, new_min_score, NoInt),
             "set minimum score", env, <<>>, None)

unban_tool(borrower_address, cfg, env) ==
    IF ~IsAddress(borrower_address)
    THEN Fail(<<>>, "Invalid borrower address supplied", None)
    ELSE dispatch("unban", "Owner", FALSE, cfg,
                  Call("unban", borrower_address, NoInt, -1, NoInt),
             Call("unban", borrower_address, NoInt, -1, NoInt),
                  "unban borrower", env, <<>>, None)

(***************************************************************************)
(* The read handlers that report the aggregated views.  `data` lists the   *)
(* reported fields in the order of the payload.                            *)
(***************************************************************************)
lenderStatus_tool(lender_address, env) ==
    LET st == lender_status(env)
    IN  IF ~IsAddress(lender_address)
        THEN Fail(<<>>, "Invalid lender address supplied", None)
        ELSE IF ~st.ok
        THEN Out(tool_error("Unable to read lender status", None), st.calls, NoTx, NoReq,
                 lender_address)
        ELSE Out(tool_success([NoPayload EXCEPT !.data =
                     <<"totalDeposited", st.t[1], "totalWithdrawn", st.t[2],
                       "currentBalance", st.t[3], "unlockable", st.t[4]>>]),
                 st.calls, NoTx, NoReq, lender_address)

getLoan_tool(borrower_address, env) ==
    LET st == loan_status(env)
    IN  IF ~IsAddress(borrower_address)
        THEN Fail(<<>>, "Read failed", None)
        ELSE IF ~st.ok
        THEN Out(tool_error("Unable to read loan status for borrower", None), st.calls, NoTx,
                 NoReq, borrower_address)
        ELSE Out(tool_success([NoPayload EXCEPT !.data =
                     <<"principal", st.t[2], "outstanding", st.t[3], "startTime", st.t[4],
                       "dueTime", st.t[5], "active", st.t[1], "banned", st.t[6]>>]),
                 st.calls, NoTx, NoReq, borrower_address)

\* handlers[name](**inputs): the handler registered under a tool's name.
Handle(tool, in) ==
    CASE tool = "deposit" -> deposit_tool(in.amount, in.cfg, in.env)
      [] tool = "withdraw" -> withdraw_tool(in.amount, in.cfg, in.env)
      [] tool = "openLoan" -> openLoan_tool(in.address, in.amount, in.n, in.cfg, in.env)
      [] tool = "repay" -> repay_tool(in.cfg, in.env)
      [] tool = "checkDefaultAndBan" -> checkDefaultAndBan_tool(in.address, in.cfg, in.env)
      [] tool = "setDepositLockSeconds" -> setDepositLockSeconds_tool(in.n, in.cfg, in.env)
      [] tool = "setTrustMintSbt" -> setTrustMintSbt_tool(in.address, in.cfg, in.env)
      [] tool = "setMinScoreToBorrow" -> setMinScoreToBorrow_tool(in.n, in.cfg, in.env)
      [] tool = "unban" -> unban_tool(in.address, in.cfg, in.env)
      [] tool = "lenderStatus" -> lenderStatus_tool(in.address, in.env)
      [] tool = "getLoan" -> getLoan_tool(in.address, in.env)

(***************************************************************************)
(* mcp_tools.py: render_mcp_tools_page.  The page passes the key of the    *)
(* selected signing role, and no role keys or role addresses, to the       *)
(* toolkit; pk holds the keys typed for the roles (None when left empty).  *)
(***************************************************************************)
SigningRoles == {"Read-only", "Owner", "Lender", "Borrower"}

effective_private_key(role, pk) ==
    CASE role = "Owner" -> pk.Owner
      [] role = "Lender" -> pk.Lender
      [] role = "Borrower" -> pk.Borrower
      [] OTHER -> None

PageCfg(role, pk, private_key_env) ==
    [private_key |-> effective_private_key(role, pk), env_key |-> private_key_env,
     role_private_keys |-> [Owner |-> None, Lender |-> None, Borrower |-> None],
     role_addresses |-> [Owner |-> None, Lender |-> None, Borrower |-> None]]

\* The "Owner PRIVATE_KEY" field is pre-filled with the environment's key.
PageCfgs ==
    {PageCfg(r, [Owner |-> o, Lender |-> l, Borrower |-> b], e) :
        r \in SigningRoles, e \in {None, "kE"}, o \in {None, "kO", "kE"},
        l \in {None, "kL"}, b \in {None, "kB"}}

(***************************************************************************)
(* SpecUnits: base units -> human units -> base units on one input.        *)
(***************************************************************************)
MaxZeros == 28

DecimalsSet == {0, 6, 18}

UnitInputs ==
    {<<>>} \cup {Strip(<<a>> \o Zeros(k) \o <<b>>) : a \in {1, 9}, k \in 0..MaxZeros, b \in {0, 1, 5}}

NoUnits == [pc |-> "off", n |-> <<>>, d |-> 0, human |-> Dec(<<>>, 0), back |-> Raised]

(***************************************************************************)
(* wallet_section.py: render_wallet_section, the MetaMask slot of one      *)
(* key_prefix/tool.  mm_state["metamask"] is the request the tool          *)
(* returned; the wallet component answers a command with a value that      *)
(* carries the command's sequence.                                         *)
(***************************************************************************)
\* A value of the wallet component: {commandSequence, address?, chainId?,
\* txHash?, status?, error?}.  Absent fields are None (0 for the numbers);
\* cmd is the position in `issued` of the command the value answers (0: the
\* value answers no command), which the program does not see.
NoValue ==
    [set |-> FALSE, commandSequence |-> -1, address |-> None, chainId |-> 0,
     txHash |-> None, status |-> None, error |-> None, cmd |-> 0]

Value(kind, seq, cmd) ==
    CASE kind = "connected" ->
           [NoValue EXCEPT !.set = TRUE, !.commandSequence = seq, !.cmd = cmd,
                           !.address = "0xW", !.chainId = 5, !.status = "connected"]
      [] kind = "sent" ->
           [NoValue EXCEPT !.set = TRUE, !.commandSequence = seq, !.cmd = cmd,
                           !.txHash = "0xh"]
      [] kind = "failed" ->
           [NoValue EXCEPT !.set = TRUE, !.commandSequence = seq, !.cmd = cmd,
                           !.error = "User rejected"]
      [] kind = "failed_sent" ->
           [NoValue EXCEPT !.set = TRUE, !.commandSequence = seq, !.cmd = cmd,
                           !.error = "Receipt failed", !.txHash = "0xh"]

ValueKinds == {"connected", "sent", "failed", "failed_sent"}

NoPending == [command |-> None, sequence |-> -1, idx |-> 0]

IsDict(pending) == pending.command # None

\* The slot before its first script run, for the request the tool returned.
NewSlot(metamask) ==
    [metamask |-> metamask, pending_command |-> NoPending, last_result |-> NoValue,
     last_value |-> NoValue, wallet_address |-> None, wallet_chain |-> 0]

NoSlot == NewSlot([tx_request |-> FALSE, from |-> None, chainId |-> 0])

NoSession == [address |-> None, chainId |-> 0]

NoShown == [error |-> FALSE, status |-> FALSE, sent |-> FALSE, receipt |-> "none"]

NoRun == [btn |-> None, cv |-> NoValue, adopted |-> FALSE, classified |-> NoValue, shown |-> NoShown]

\* Lines 32-34: mm_state.setdefault("wallet_address", from_address).
WithDefaultAddress(ms) ==
    IF ms.metamask.from # None /\ ms.wallet_address = None
    THEN [ms EXCEPT !.wallet_address = ms.metamask.from]
    ELSE ms

Matches(pending, cv) ==
    IsDict(pending) /\ cv.set /\ cv.commandSequence = pending.sequence

Reconcile_clearing_on_any_value(ms, cv) ==
    IF ~cv.set THEN ms
    ELSE IF Matches(ms.pending_command, cv)
    THEN [ms EXCEPT !.last_value = cv, !.last_result = cv, !.pending_command = NoPending,
                    !.wallet_address = IF cv.address # None THEN cv.address ELSE @,
                    !.wallet_chain = IF cv.chainId # 0 THEN cv.chainId ELSE @]
    ELSE [ms EXCEPT !.last_value = cv, !.pending_command = NoPending]

\* Lines 62-76: the component's value is recorded, and adopted as the
\* result when it carries the pending command's sequence.
Reconcile(ms, cv) ==
    IF ~cv.set THEN ms
    ELSE IF Matches(ms.pending_command, cv)
    THEN [ms EXCEPT !.last_value = cv, !.last_result = cv, !.pending_command = NoPending,
                    !.wallet_address = IF cv.address # None THEN cv.address ELSE @,
                    !.wallet_chain = IF cv.chainId # 0 THEN cv.chainId ELSE @]
    ELSE [ms EXCEPT !.last_value = cv]

ClassifyHashFirst(last_result, receipt) ==
    IF ~last_result.set THEN NoShown
    ELSE IF last_result.txHash # None
    THEN [error |-> FALSE, status |-> last_result.status # None, sent |-> TRUE,
          receipt |-> receipt]
    ELSE [error |-> last_result.error # None, status |-> last_result.status # None,
          sent |-> FALSE, receipt |-> "none"]

\* Lines 138-163: what the run displays for last_result; `receipt` is how
\* w3.eth.wait_for_transaction_receipt ends ("ok", or "timeout" when it
\* raises), should it be called.
Classify(last_result, receipt) ==
    IF ~last_result.set THEN NoShown
    ELSE IF last_result.error # None
    THEN [error |-> TRUE, status |-> FALSE, sent |-> FALSE, receipt |-> "none"]
    ELSE [error |-> FALSE, status |-> last_result.status # None,
          sent |-> last_result.txHash # None,
          receipt |-> IF last_result.txHash # None THEN receipt ELSE "none"]

AfterReceipt_forgetting_on_timeout(ms, shown) ==
    IF shown.receipt = "timeout" THEN [ms EXCEPT !.last_result = NoValue] ELSE ms

\* Lines 123-172: displaying the result, the receipt wait and its warning
\* included, assigns nothing in the slot.
AfterReceipt(ms, shown) == ms

\* Lines 128-137: the address and chain of the result are cached in the session.
Cache(sess, ms) ==
    IF ~ms.last_result.set THEN sess
    ELSE LET a == IF ms.last_result.address # None THEN ms.last_result.address
                  ELSE ms.wallet_address
             c == IF ms.last_result.chainId # 0 THEN ms.last_result.chainId
                  ELSE ms.wallet_chain
         IN  [address |-> IF a # None THEN a ELSE sess.address,
              chainId |-> IF c # 0 THEN c ELSE sess.chainId]

\* int(time() * 1000) at a clock reading.
SequenceAt(t) == t

\* The values the component can return in a run: nothing, the payload of
\* its autoconnect (no command sequence), or the outcome of a command that
\* an earlier run passed to it.
ComponentValues ==
    {NoValue, [Value("connected", -1, 0) EXCEPT !.status = None]}
    \cup {Value(k, issued[i].sequence, i) :
            k \in ValueKinds, i \in {j \in 1..Len(issued) : issued[j].delivered}}

\* Line 50: the pending command is passed to the component.
Delivered(pending) ==
    IF IsDict(pending) THEN [issued EXCEPT ![pending.idx].delivered = TRUE] ELSE issued

MaxClock == 1
MaxIssued == 2

\* A script run in which no button is pressed.
Render(dt, cv, receipt) ==
    LET ms == Reconcile(WithDefaultAddress(mm_state), cv)
    IN  /\ clock' = clock + dt
        /\ mm_state' = AfterReceipt(ms, Classify(ms.last_result, receipt))
        /\ issued' = Delivered(mm_state.pending_command)
        /\ session' = Cache(session, ms)
        /\ run' = [btn |-> "none", cv |-> cv, adopted |-> Matches(mm_state.pending_command, cv),
                   classified |-> ms.last_result,
                   shown |-> Classify(ms.last_result, receipt)]
        /\ UNCHANGED <<units, pc, inv, chain, proc, runner>>

\* A script run in which "Connect wallet", "Switch network" or "Send
\* transaction" is pressed: the command is stored with a new sequence and
\* st_rerun() ends the run.
Issue(dt, cv, command) ==
    LET ms == Reconcile(WithDefaultAddress(mm_state), cv)
        at == clock + dt
        d  == Delivered(mm_state.pending_command)
    IN  /\ Len(issued) < MaxIssued
        /\ command = "send_transaction" => mm_state.metamask.tx_request
        /\ clock' = at
        /\ mm_state' = [ms EXCEPT !.pending_command =
                            [command |-> command, sequence |-> SequenceAt(at),
                             idx |-> Len(issued) + 1]]
        /\ issued' = Append(d, [sequence |-> SequenceAt(at), delivered |-> FALSE])
        /\ session' = session
        /\ run' = [btn |-> command, cv |-> cv, adopted |-> Matches(mm_state.pending_command, cv),
                   classified |-> NoValue, shown |-> NoShown]
        /\ UNCHANGED <<units, pc, inv, chain, proc, runner>>

\* A script run in which "Clear MetaMask state" is pressed: the run displays
\* the result, then the slot is popped from the session.
Clear(dt, cv, receipt) ==
    LET ms == Reconcile(WithDefaultAddress(mm_state), cv)
    IN  /\ clock' = clock + dt
        /\ mm_state' = NewSlot(mm_state.metamask)
        /\ issued' = Delivered(mm_state.pending_command)
        /\ session' = Cache(session, ms)
        /\ run' = [btn |-> "clear", cv |-> cv, adopted |-> Matches(mm_state.pending_command, cv),
                   classified |-> ms.last_result,
                   shown |-> Classify(ms.last_result, receipt)]
        /\ UNCHANGED <<units, pc, inv, chain, proc, runner>>

Elapsed == {dt \in {0, 1} : clock + dt <= MaxClock}

RenderIdle == \E dt \in Elapsed, cv \in ComponentValues, r \in {"ok", "timeout"} : Render(dt, cv, r)

ClickConnect == \E dt \in Elapsed, cv \in ComponentValues : Issue(dt, cv, "connect")

ClickSwitch == \E dt \in Elapsed, cv \in ComponentValues : Issue(dt, cv, "switch_network")

ClickSend == \E dt \in Elapsed, cv \in ComponentValues : Issue(dt, cv, "send_transaction")

ClickClear == \E dt \in Elapsed, cv \in ComponentValues, r \in {"ok", "timeout"} : Clear(dt, cv, r)


(***************************************************************************)
(* The local signing path step by step.  Streamlit runs the script of each *)
(* browser session in its own thread, so two sessions that use the same    *)
(* key can be inside a write handler at once; every network call of the    *)
(* path is a step.  chain.count[a] is the number of transactions the       *)
(* network has accepted from address a, which next_nonce(w3, a) reads;     *)
(* chain.log lists the nonces of the accepted transactions of the signer.  *)
(***************************************************************************)
Sessions == {1, 2}

Signer == "aS"
Wallet == "mS"

NoChain == [count |-> [aS |-> 0, mS |-> 0], log |-> <<>>]

\* An invocation: op is the handler, k the next step of its local path,
\* calls the network calls made, nonce the value next_nonce returned,
\* tx_nonce the "nonce" of the built transaction; started and fetched are
\* the numbers of accepted transactions when the invocation began and when
\* it read the nonce, n the number of invocations of the session, and
\* last_nonce the nonce read by its previous invocation.
NoProc ==
    [pc |-> "idle", op |-> None, k |-> 0, calls |-> <<>>, nonce |-> -1, tx_nonce |-> -1,
     started |-> 0, fetched |-> -1, n |-> 0, last_nonce |-> -1, result |-> None]

NoProcs == [p \in Sessions |-> NoProc]

\* The tool runner before the button is pressed: the selected tool, the
\* required parameters found missing, whether the handler was called, and
\* the banner displayed.
NoRunner == [pc |-> "idle", tool |-> None, missing |-> {}, called |-> FALSE, banner |-> "none"]

(***************************************************************************)
(* Inputs of the handlers and answers of the environment.                  *)
(***************************************************************************)
\* Amounts a caller passes: a text that is no number, NaN, Infinity, zero,
\* a negative amount, a positive amount below one base unit, and 50 and 51
\* base units.
AmountInputs ==
    {Text, DecNaN, DecInf, Dec(<<>>, 0), [Dec(<<1>>, 0) EXCEPT !.neg = TRUE],
     Dec(<<1>>, -(NativeDecimals + 1)), Dec(<<5, 0>>, -NativeDecimals),
     Dec(<<5, 1>>, -NativeDecimals)}

NoAmount == Dec(<<>>, 0)

AddressInputs == {"0xB0", "bad"}

IntInputs == {0, 7}

NoLoan ==
    [active |-> FALSE, principal |-> 0, outstanding |-> 0, startTime |-> 0, dueTime |-> 0,
     banned |-> FALSE]

Loans ==
    {[NoLoan EXCEPT !.active = a, !.outstanding = o, !.principal = 2 * o, !.banned = b,
                    !.startTime = 3, !.dueTime = 4] :
        a \in BOOLEAN, o \in {0, 10}, b \in BOOLEAN}

DefaultEnv ==
    [lenderStatusExposed |-> TRUE, lender_ok |-> TRUE, lender |-> <<100, 0, 100, 100>>,
     loanStatusExposed |-> TRUE, loan_ok |-> TRUE, loan |-> NoLoan,
     canOpenLoanExposed |-> FALSE, canOpen_ok |-> TRUE,
     canOpen |-> [ok |-> TRUE, reason |-> "OK"],
     liquidity_ok |-> TRUE, liquidity |-> 1000,
     lender_fail_at |-> 1, loan_fail_at |-> 1,
     local |-> NoFailure, mm |-> "ok"]

\* The outcomes of the signing paths, on top of a base environment.
ExecEnvs(base) ==
    {[base EXCEPT !.local = l] : l \in LocalOutcomes} \cup {[base EXCEPT !.mm = "exc"]}

LenderEnvs ==
    {[DefaultEnv EXCEPT !.lenderStatusExposed = x, !.lender = <<70, 20, 60, u>>] :
        x \in BOOLEAN, u \in {0, 50}}
    \cup {[DefaultEnv EXCEPT !.lenderStatusExposed = x, !.lender_ok = FALSE,
                             !.lender_fail_at = f] : x \in BOOLEAN, f \in 1..4}

LoanEnvs ==
    {[DefaultEnv EXCEPT !.loanStatusExposed = x, !.loan = l] : x \in BOOLEAN, l \in Loans}
    \cup {[DefaultEnv EXCEPT !.loanStatusExposed = x, !.loan_ok = FALSE, !.loan_fail_at = f] :
            x \in BOOLEAN, f \in 1..2}

CanOpenAnswers ==
    {[ok |-> TRUE, reason |-> "OK"], [ok |-> FALSE, reason |-> "Active loan exists"],
     [ok |-> FALSE, reason |-> "Score too low"]}

OpenLoanEnvs ==
    LoanEnvs
    \cup {[e EXCEPT !.liquidity = 0] : e \in LoanEnvs}
    \cup {[e EXCEPT !.liquidity_ok = FALSE] : e \in LoanEnvs}
    \cup {[DefaultEnv EXCEPT !.canOpenLoanExposed = TRUE, !.canOpen = c, !.loan = l] :
            c \in CanOpenAnswers, l \in {x \in Loans : ~x.banned}}
    \cup {[DefaultEnv EXCEPT !.canOpenLoanExposed = TRUE, !.canOpen_ok = FALSE],
          [DefaultEnv EXCEPT !.canOpenLoanExposed = TRUE, !.loan_ok = FALSE,
                             !.canOpen = [ok |-> FALSE, reason |-> "Active loan exists"]]}

ActiveLoanEnv == [DefaultEnv EXCEPT !.loan = [NoLoan EXCEPT !.active = TRUE, !.outstanding = 10,
                                                          !.principal = 20]]

Units50 == Dec(<<5, 0>>, -NativeDecimals)
Units51 == Dec(<<5, 1>>, -NativeDecimals)

\* The invocations tried: every amount under every configuration, and a
\* valid amount under every configuration and every answer of the
\* environment.
In(address, amount, n, cfg, env) ==
    [address |-> address, amount |-> amount, n |-> n, cfg |-> cfg, env |-> env]

DepositInputs ==
    {In(None, m, -1, c, DefaultEnv) : m \in AmountInputs, c \in RoleCfgs("Lender")}
    \cup {In(None, Units50, -1, c, e) : c \in RoleCfgs("Lender"), e \in ExecEnvs(DefaultEnv)}
    \cup {In(None, Units50, -1, c, DefaultEnv) : c \in PageCfgs}

WithdrawInputs ==
    {In(None, m, -1, c, DefaultEnv) : m \in AmountInputs, c \in RoleCfgs("Lender")}
    \cup {In(None, m, -1, c, e) : m \in {Units50, Units51}, c \in RoleCfgs("Lender"),
                                  e \in LenderEnvs}
    \cup {In(None, Units50, -1, c, e) : c \in RoleCfgs("Lender"), e \in ExecEnvs(DefaultEnv)}

OpenLoanInputs ==
    {In(a, m, 7, c, DefaultEnv) : a \in AddressInputs, m \in AmountInputs,
                                  c \in RoleCfgs("Owner")}
    \cup {In("0xB0", Units50, 7, c, e) : c \in RoleCfgs("Owner"),
                                         e \in OpenLoanEnvs \cup ExecEnvs(DefaultEnv)}

RepayInputs ==
    {In(None, NoAmount, -1, c, e) : c \in RoleCfgs("Borrower"),
                                    e \in ExecEnvs(ActiveLoanEnv) \cup LoanEnvs}

AddressOpInputs ==
    {In(a, NoAmount, -1, c, e) : a \in AddressInputs, c \in RoleCfgs("Owner"),
                                 e \in ExecEnvs(DefaultEnv)}

IntOpInputs ==
    {In(None, NoAmount, n, c, e) : n \in IntInputs, c \in RoleCfgs("Owner"),
                                   e \in ExecEnvs(DefaultEnv)}
    \cup {In(None, NoAmount, 7, c, DefaultEnv) : c \in PageCfgs}

LenderStatusInputs ==
    {In(a, NoAmount, -1, BaseCfg, e) : a \in AddressInputs, e \in LenderEnvs}

GetLoanInputs ==
    {In(a, NoAmount, -1, BaseCfg, e) : a \in AddressInputs, e \in LoanEnvs}

(***************************************************************************)
(* SpecTools: one handler invocation per step.  The tool runner builds the *)
(* toolkit and calls the selected handler once per script run; the result  *)
(* is displayed and the next run starts from scratch.                      *)
(***************************************************************************)
NoInv ==
    [tool |-> None, role |-> None, in |-> In(None, NoAmount, -1, BaseCfg, DefaultEnv),
     out |-> Out(RaisedResult, <<>>, NoTx, NoReq, None)]

Invoked(tool, role, in, out) ==
    /\ pc' = "returned"
    /\ inv' = [tool |-> tool, role |-> role, in |-> in, out |-> out]
    /\ UNCHANGED <<units, clock, mm_state, session, issued, run, chain, proc, runner>>

Deposit ==
    /\ pc = "idle"
    /\ \E i \in DepositInputs :
        Invoked("deposit", "Lender", i, deposit_tool(i.amount, i.cfg, i.env))

Withdraw ==
    /\ pc = "idle"
    /\ \E i \in WithdrawInputs :
        Invoked("withdraw", "Lender", i, withdraw_tool(i.amount, i.cfg, i.env))

OpenLoan ==
    /\ pc = "idle"
    /\ \E i \in OpenLoanInputs :
        Invoked("openLoan", "Owner", i, openLoan_tool(i.address, i.amount, i.n, i.cfg, i.env))

Repay ==
    /\ pc = "idle"
    /\ \E i \in RepayInputs :
        Invoked("repay", "Borrower", i, repay_tool(i.cfg, i.env))

CheckDefaultAndBan ==
    /\ pc = "idle"
    /\ \E i \in AddressOpInputs :
        Invoked("checkDefaultAndBan", "Owner", i,
                checkDefaultAndBan_tool(i.address, i.cfg, i.env))

SetDepositLockSeconds ==
    /\ pc = "idle"
    /\ \E i \in IntOpInputs :
        Invoked("setDepositLockSeconds", "Owner", i,
                setDepositLockSeconds_tool(i.n, i.cfg, i.env))

SetTrustMintSbt ==
    /\ pc = "idle"
    /\ \E i \in AddressOpInputs :
        Invoked("setTrustMintSbt", "Owner", i, setTrustMintSbt_tool(i.address, i.cfg, i.env))

SetMinScoreToBorrow ==
    /\ pc = "idle"
    /\ \E i \in IntOpInputs :
        Invoked("setMinScoreToBorrow", "Owner", i,
                setMinScoreToBorrow_tool(i.n, i.cfg, i.env))

Unban ==
    /\ pc = "idle"
    /\ \E i \in AddressOpInputs :
        Invoked("unban", "Owner", i, unban_tool(i.address, i.cfg, i.env))

LenderStatus ==
    /\ pc = "idle"
    /\ \E i \in LenderStatusInputs :
        Invoked("lenderStatus", None, i, lenderStatus_tool(i.address, i.env))

GetLoan ==
    /\ pc = "idle"
    /\ \E i \in GetLoanInputs :
        Invoked("getLoan", None, i, getLoan_tool(i.address, i.env))

\* The script run ends; the next one starts with nothing kept of the call.
Rerun ==
    /\ pc = "returned"
    /\ pc' = "idle"
    /\ inv' = NoInv
    /\ UNCHANGED <<units, clock, mm_state, session, issued, run, chain, proc, runner>>

InitTools ==
    /\ pc = "idle" /\ inv = NoInv
    /\ units = NoUnits
    /\ clock = 0 /\ mm_state = NoSlot /\ session = NoSession /\ issued = <<>> /\ run = NoRun
    /\ chain = NoChain /\ proc = NoProcs /\ runner = NoRunner

NextTools ==
    \/ Deposit \/ Withdraw \/ OpenLoan \/ Repay \/ CheckDefaultAndBan
    \/ SetDepositLockSeconds \/ SetTrustMintSbt \/ SetMinScoreToBorrow \/ Unban
    \/ LenderStatus \/ GetLoan
    \/ Rerun

SpecTools == InitTools /\ [][NextTools]_vars

InitWallet ==
    /\ clock = 0
    /\ mm_state \in {NewSlot([tx_request |-> t, from |-> f, chainId |-> 5]) :
                        t \in BOOLEAN, f \in {None, "0xF"}}
    /\ session = NoSession
    /\ issued = <<>>
    /\ run = NoRun
    /\ units = NoUnits /\ pc = "off" /\ inv = NoInv
    /\ chain = NoChain /\ proc = NoProcs /\ runner = NoRunner

NextWallet == RenderIdle \/ ClickConnect \/ ClickSwitch \/ ClickSend \/ ClickClear

SpecWallet == InitWallet /\ [][NextWallet]_vars

(***************************************************************************)
(* SpecNonce: the invocations of deposit and withdraw (nonce, chain id,    *)
(* fees) and of openLoan (fees, nonce, chain id) in two sessions.          *)
(***************************************************************************)
NonceOps == {"deposit", "withdraw", "openLoan"}

FeesFirst(op) == op \in {"openLoan", "checkDefaultAndBan"}

\* The views the handler's pre-checks read.
PreCheckCalls(op) ==
    CASE op = "withdraw" -> <<"view:lenderStatus">>
      [] op = "openLoan" -> <<"view:canOpenLoan">>
      [] OTHER -> <<>>

MaxInvocations == 2

NextStep(pr) == LocalSteps(FeesFirst(pr.op))[pr.k]

\* "from": signer, "nonce": next_nonce(w3, signer)
NonceAddressOfRole(signer, wallet_address) == wallet_address

NonceAddress(signer, wallet_address) == signer

TxNonceKept(pr) == IF pr.last_nonce # -1 THEN pr.last_nonce ELSE pr.nonce

\* The nonce put in the transaction is the one just read.
TxNonce(pr) == pr.nonce

\* next_nonce(w3, address): the next unused sequence number of the address.
next_nonce(address) == chain.count[address]

\* The network takes a transaction whose nonce is the sender's next one,
\* unless it rejects it for another reason.
network_accepts(sender, nonce, accepts) == accepts /\ nonce = chain.count[sender]

InvokeHandler(p, op) ==
    /\ proc[p].pc = "idle" /\ proc[p].n < MaxInvocations
    /\ proc' = [proc EXCEPT ![p] =
                  [NoProc EXCEPT !.pc = "precheck", !.op = op, !.n = proc[p].n + 1,
                                 !.started = Len(chain.log),
                                 !.last_nonce = proc[p].last_nonce]]
    /\ UNCHANGED <<chain, units, pc, inv, clock, mm_state, session, issued, run, runner>>

\* The amount and the addresses are validated and the views are read: the
\* checks pass, or the handler returns its failure.
PreCheck(p, ok) ==
    /\ proc[p].pc = "precheck"
    /\ proc' = [proc EXCEPT ![p].calls = @ \o PreCheckCalls(proc[p].op),
                            ![p].pc = IF ok THEN "local" ELSE "returned",
                            ![p].k = IF ok THEN 1 ELSE 0,
                            ![p].result = IF ok THEN None ELSE "Failed"]
    /\ UNCHANGED <<chain, units, pc, inv, clock, mm_state, session, issued, run, runner>>

FetchNonce(p) ==
    /\ proc[p].pc = "local" /\ NextStep(proc[p]) = "nonce"
    /\ proc' = [proc EXCEPT ![p].calls = Append(@, "nonce"),
                            ![p].nonce = next_nonce(NonceAddress(Signer, Wallet)),
                            ![p].fetched = Len(chain.log),
                            ![p].k = @ + 1]
    /\ UNCHANGED <<chain, units, pc, inv, clock, mm_state, session, issued, run, runner>>

\* _fees() and w3.eth.chain_id.
FetchOther(p) ==
    /\ proc[p].pc = "local" /\ NextStep(proc[p]) \in {"fees", "chain_id"}
    /\ proc' = [proc EXCEPT ![p].calls = Append(@, NextStep(proc[p])), ![p].k = @ + 1]
    /\ UNCHANGED <<chain, units, pc, inv, clock, mm_state, session, issued, run, runner>>

Build(p) ==
    /\ proc[p].pc = "local" /\ NextStep(proc[p]) = "build"
    /\ proc' = [proc EXCEPT ![p].calls = Append(@, "build"),
                            ![p].tx_nonce = TxNonce(proc[p]),
                            ![p].k = @ + 1]
    /\ UNCHANGED <<chain, units, pc, inv, clock, mm_state, session, issued, run, runner>>

\* sign_and_send: the network accepts the transaction when its nonce is the
\* signer's next one (and nothing else makes it reject), else the broadcast
\* fails and the handler returns the error.
SignAndSend(p, accepts) ==
    /\ proc[p].pc = "local" /\ NextStep(proc[p]) = "sign_send"
    /\ LET ok == network_accepts(Signer, proc[p].tx_nonce, accepts)
       IN  /\ chain' = IF ok
                       THEN [chain EXCEPT !.count[Signer] = @ + 1,
                                          !.log = Append(@, proc[p].tx_nonce)]
                       ELSE chain
           /\ proc' = [proc EXCEPT ![p].calls = Append(@, "sign_send"),
                                   ![p].pc = "returned",
                                   ![p].result = IF ok THEN "Sent" ELSE "Failed"]
    /\ UNCHANGED <<units, pc, inv, clock, mm_state, session, issued, run, runner>>

\* The handler returns; its local variables are gone.
Return(p) ==
    /\ proc[p].pc = "returned"
    /\ proc' = [proc EXCEPT ![p] = [NoProc EXCEPT !.n = proc[p].n,
                                                  !.last_nonce = proc[p].nonce]]
    /\ UNCHANGED <<chain, units, pc, inv, clock, mm_state, session, issued, run, runner>>

InitNonce ==
    /\ chain = NoChain /\ proc = NoProcs /\ runner = NoRunner
    /\ units = NoUnits /\ pc = "off" /\ inv = NoInv
    /\ clock = 0 /\ mm_state = NoSlot /\ session = NoSession /\ issued = <<>> /\ run = NoRun

NextNonce ==
    \/ \E p \in Sessions, op \in NonceOps : InvokeHandler(p, op)
    \/ \E p \in Sessions, ok \in BOOLEAN : PreCheck(p, ok)
    \/ \E p \in Sessions : FetchNonce(p)
    \/ \E p \in Sessions : FetchOther(p)
    \/ \E p \in Sessions : Build(p)
    \/ \E p \in Sessions, accepts \in BOOLEAN : SignAndSend(p, accepts)
    \/ \E p \in Sessions : Return(p)

SpecNonce == InitNonce /\ [][NextNonce]_vars

(***************************************************************************)
(* SpecRunner: mcp_tools.py, _render_tool_runner.  Each parameter of the   *)
(* selected tool has a widget chosen by its schema type: a number input    *)
(* converted with int() or float(), or a text input; pressing "Run MCP     *)
(* tool" looks for missing required parameters, calls the handler and      *)
(* displays a banner.                                                      *)
(***************************************************************************)
\* The "properties" of the schemas registered in pool_tools.py; every one
\* of them is listed as "required".
ToolParams(tool) ==
    CASE tool \in {"deposit", "withdraw"} -> {[name |-> "amount", type |-> "number"]}
      [] tool = "openLoan" ->
           {[name |-> "borrower_address", type |-> "string"],
            [name |-> "principal", type |-> "number"],
            [name |-> "term_seconds", type |-> "integer"]}
      [] tool = "repay" -> {}
      [] tool = "setDepositLockSeconds" -> {[name |-> "seconds", type |-> "integer"]}
      [] tool = "setMinScoreToBorrow" -> {[name |-> "new_min_score", type |-> "integer"]}
      [] tool = "setTrustMintSbt" -> {[name |-> "sbt_address", type |-> "string"]}
      [] tool = "lenderStatus" -> {[name |-> "lender_address", type |-> "string"]}
      [] OTHER -> {[name |-> "borrower_address", type |-> "string"]}

ToolRole(tool) ==
    CASE tool \in {"deposit", "withdraw"} -> "Lender"
      [] tool = "repay" -> "Borrower"
      [] tool \in {"lenderStatus", "getLoan"} -> None
      [] OTHER -> "Owner"

\* inputs.get(param) of a parameter of the given type.
WidgetValueIsFalsy(type, in) ==
    CASE type = "integer" -> in.n = 0
      [] type = "number" -> AllZero(in.amount.coef)
      [] OTHER -> in.address = ""

\* Line 74: [param for param in required if not inputs.get(param)]
MissingParams(tool, in) ==
    {q.name : q \in {r \in ToolParams(tool) : WidgetValueIsFalsy(r.type, in)}}

\* Lines 84-94: an exception is reported, any returned value is "completed".
Banner(result) == IF result.raised THEN "Tool execution failed" ELSE "Tool completed"

RunnerTools ==
    {"deposit", "withdraw", "openLoan", "repay", "checkDefaultAndBan",
     "setDepositLockSeconds", "setTrustMintSbt", "setMinScoreToBorrow", "unban",
     "lenderStatus", "getLoan"}

\* The values of the widgets of the selected tool (a text input can be
\* empty; float(value) of a number input is zero, negative or positive),
\* with the configurations and the network answers the handler meets.
RunnerInputs(tool) ==
    LET types == {q.type : q \in ToolParams(tool)}
        role == ToolRole(tool)
    IN  {In(a, m, n, c, e) :
            a \in IF "string" \in types THEN {""} \cup AddressInputs ELSE {None},
            m \in IF "number" \in types
                  THEN {Dec(<<>>, 0), [Dec(<<1>>, 0) EXCEPT !.neg = TRUE], Units50, Units51}
                  ELSE {NoAmount},
            n \in IF "integer" \in types THEN IntInputs ELSE {-1},
            c \in IF role = None THEN {BaseCfg} ELSE RoleCfgs(role) \cup PageCfgs,
            e \in CASE tool = "repay" -> ExecEnvs(ActiveLoanEnv) \cup LoanEnvs
                    [] tool = "lenderStatus" -> LenderEnvs
                    [] tool = "getLoan" -> LoanEnvs
                    [] tool \in {"setDepositLockSeconds", "setMinScoreToBorrow"}
                         -> ExecEnvs(DefaultEnv)
                    [] OTHER -> {DefaultEnv, [DefaultEnv EXCEPT !.mm = "exc"]}}

\* "Run MCP tool" is pressed.
RunTool(tool, in) ==
    /\ runner.pc = "idle"
    /\ LET missing == MissingParams(tool, in)
           out == IF missing = {} THEN Handle(tool, in) ELSE NoInv.out
       IN  /\ inv' = [tool |-> tool, role |-> ToolRole(tool), in |-> in, out |-> out]
           /\ runner' = [pc |-> "shown", tool |-> tool, missing |-> missing,
                         called |-> missing = {},
                         banner |-> IF missing # {} THEN "Missing required parameters"
                                    ELSE Banner(out.result)]
    /\ UNCHANGED <<units, pc, clock, mm_state, session, issued, run, chain, proc>>

\* The next script run, with the button not pressed.
RerunPage ==
    /\ runner.pc = "shown"
    /\ runner' = NoRunner /\ inv' = NoInv
    /\ UNCHANGED <<units, pc, clock, mm_state, session, issued, run, chain, proc>>

InitRunner ==
    /\ runner = NoRunner /\ inv = NoInv /\ pc = "off"
    /\ units = NoUnits /\ chain = NoChain /\ proc = NoProcs
    /\ clock = 0 /\ mm_state = NoSlot /\ session = NoSession /\ issued = <<>> /\ run = NoRun

NextRunner ==
    \/ \E tool \in RunnerTools : \E in \in RunnerInputs(tool) : RunTool(tool, in)
    \/ RerunPage

SpecRunner == InitRunner /\ [][NextRunner]_vars

InitUnits ==
    /\ units \in {[NoUnits EXCEPT !.pc = "in", !.n = n, !.d = d] : n \in UnitInputs, d \in DecimalsSet}
    /\ pc = "off" /\ inv = NoInv
    /\ clock = 0 /\ mm_state = NoSlot /\ session = NoSession /\ issued = <<>> /\ run = NoRun
    /\ chain = NoChain /\ proc = NoProcs /\ runner = NoRunner

ToHuman ==
    /\ units.pc = "in"
    /\ units' = [units EXCEPT !.pc = "human", !.human = from_token_units(units.n, units.d)]
    /\ UNCHANGED <<pc, inv, clock, mm_state, session, issued, run, chain, proc, runner>>

ToBase ==
    /\ units.pc = "human"
    /\ units' = [units EXCEPT !.pc = "back", !.back = to_token_units(units.human, units.d)]
    /\ UNCHANGED <<pc, inv, clock, mm_state, session, issued, run, chain, proc, runner>>

NextUnits == ToHuman \/ ToBase

SpecUnits == InitUnits /\ [][NextUnits]_vars

(***************************************************************************)
(* Claims about the tool handlers (SpecTools).                             *)
(***************************************************************************)
Result == inv.out.result
Calls == inv.out.calls
Cfg == inv.in.cfg
Env == inv.in.env

Made(call) == \E i \in 1..Len(Calls) : Calls[i] = call

\* Nothing was built, signed, broadcast or handed to MetaMask.
NothingBuilt ==
    /\ ~inv.out.tx.built /\ ~inv.out.tx.broadcast /\ ~inv.out.req.built
    /\ ~Made("nonce") /\ ~Made("build") /\ ~Made("sign_send") /\ ~Made("mm_build")

WriteTools ==
    {"deposit", "withdraw", "openLoan", "repay", "checkDefaultAndBan",
     "setDepositLockSeconds", "setTrustMintSbt", "setMinScoreToBorrow", "unban"}

\* The base units of the positive finite amounts among AmountInputs.
BaseUnits(m) ==
    CASE m = Units50 -> 50 [] m = Units51 -> 51 [] OTHER -> 0

PositiveAmount(m) == m.kind = "fin" /\ ~m.neg /\ m.coef # <<>>

\* The inputs of the invocation are valid for its tool.
ValidInputs ==
    /\ inv.tool \in {"deposit", "withdraw", "openLoan"} => PositiveAmount(inv.in.amount)
    /\ inv.tool \in {"openLoan", "checkDefaultAndBan", "setTrustMintSbt", "unban"}
          => IsAddress(inv.in.address)

\* The role of the tool has a private key from which an address derives.
UsableKey ==
    LET k == IF inv.role = "Owner"
             THEN Or(Cfg.role_private_keys.Owner, Or(Cfg.private_key, Cfg.env_key))
             ELSE Cfg.role_private_keys[inv.role]
    IN  k \notin {None, "bad"}

\* The loan of the borrower as the contract reports it does not block a new
\* loan of the requested principal.
LoanCheckPasses ==
    IF Env.canOpenLoanExposed THEN Env.canOpen_ok /\ Env.canOpen.ok
    ELSE /\ Env.loan_ok /\ ~Env.loan.banned
         /\ ~(Env.loan.active /\ Env.loan.outstanding # 0)
         /\ Env.liquidity_ok /\ Env.liquidity >= BaseUnits(inv.in.amount)

\* The local checks a handler makes before it dispatches pass.
PreChecksPass ==
    /\ inv.tool = "withdraw" =>
          ~(Env.lender_ok /\ BaseUnits(inv.in.amount) > Env.lender[4])
    /\ inv.tool = "openLoan" => LoanCheckPasses
    /\ inv.tool = "repay" =>
          /\ Cfg.role_addresses.Borrower # "bad"
          /\ Env.loan_ok /\ ~Env.loan.banned /\ Env.loan.active /\ Env.loan.outstanding # 0

\* C4: a write operation invoked with valid inputs, a usable local key for
\* its role, passing pre-checks and a build/sign/broadcast that completes
\* without error returns Sent with the broadcast result, never Pending or
\* Failed.
C4_LocalSuccessIsSent ==
    (/\ pc = "returned" /\ inv.tool \in WriteTools
     /\ ValidInputs /\ UsableKey /\ PreChecksPass /\ Env.local.at = "none")
    => /\ IsSent(Result) /\ Result.txHash = "0xtx" /\ Result.sentError = None
       /\ ~IsPending(Result) /\ ~IsFailed(Result)
       /\ inv.out.tx.broadcast

C4_Witness ==
    /\ pc = "returned" /\ inv.tool = "repay"
    /\ ValidInputs /\ UsableKey /\ PreChecksPass /\ Env.local.at = "none"
    /\ Cfg.role_addresses.Borrower = "mB"
    /\ IsSent(Result)

\* A lender status was reported to the withdraw handler: it had an address
\* to read it for, and the read succeeded.
LenderStatusReported ==
    /\ \/ IsAddress(Cfg.role_addresses.Lender)
       \/ Cfg.role_private_keys.Lender \notin {None, "bad"}
    /\ Env.lender_ok

\* C6: a withdraw whose base-unit amount exceeds the unlockable amount
\* reported to the handler returns Failed, broadcasts nothing and builds no
\* delegated request, whatever the lender key and lender role address.
C6_WithdrawOverUnlockableRejected ==
    (/\ pc = "returned" /\ inv.tool = "withdraw" /\ PositiveAmount(inv.in.amount)
     /\ LenderStatusReported
     /\ BaseUnits(inv.in.amount) > Env.lender[4])
    => /\ IsFailed(Result)
       /\ Result.error = "Requested withdrawal exceeds unlocked balance"
       /\ NothingBuilt

C6_Witness ==
    /\ pc = "returned" /\ inv.tool = "withdraw" /\ inv.in.amount = Units51
    /\ LenderStatusReported /\ Env.lender[4] = 50
    /\ Cfg.role_private_keys.Lender = "kL" /\ Cfg.role_addresses.Lender = None
    /\ IsFailed(Result) /\ NothingBuilt

\* The failure names the active outstanding loan.
NamesActiveLoan ==
    \/ Result.error = "Cannot open loan: borrower has an active loan outstanding"
    \/ Result.error = "Cannot open loan" /\ MentionsActiveLoan(Result.detail)

\* C7 as stated: an openLoan for a borrower whose loan status reports a
\* nonzero outstanding balance is rejected with a failure naming the active
\* outstanding loan before anything is built, whatever the active flag and
\* whether or not canOpenLoan is exposed.
C7_OutstandingAlwaysRejected ==
    (/\ pc = "returned" /\ inv.tool = "openLoan" /\ ValidInputs
     /\ Env.loan_ok /\ Env.loan.outstanding # 0)
    => IsFailed(Result) /\ NamesActiveLoan /\ NothingBuilt

\* C7 amended: when canOpenLoan is not exposed and the loan status reports
\* an active loan with a nonzero outstanding balance, openLoan fails before
\* anything is built; the failure names the active outstanding loan unless
\* the borrower is banned, and then it says the borrower is banned.
C7_ActiveOutstandingRejected ==
    (/\ pc = "returned" /\ inv.tool = "openLoan" /\ ValidInputs
     /\ ~Env.canOpenLoanExposed
     /\ Env.loan_ok /\ Env.loan.active /\ Env.loan.outstanding # 0)
    => /\ IsFailed(Result) /\ NothingBuilt
       /\ Env.loan.banned => Result.error = "Cannot open loan" /\ Result.detail = "Borrower is banned"
       /\ ~Env.loan.banned => NamesActiveLoan

C7_Witness ==
    /\ pc = "returned" /\ inv.tool = "openLoan" /\ ValidInputs
    /\ ~Env.canOpenLoanExposed /\ Env.loan_ok
    /\ Env.loan.active /\ Env.loan.outstanding = 10 /\ ~Env.loan.banned
    /\ UsableKey
    /\ IsFailed(Result) /\ NamesActiveLoan /\ NothingBuilt

\* Neither a private key nor an address is configured for the role.
NoSignerConfigured ==
    /\ Cfg.role_private_keys[inv.role] = None
    /\ Cfg.role_addresses[inv.role] = None
    /\ inv.role = "Owner" => Cfg.private_key = None /\ Cfg.env_key = None

SignerNotConfigured == IsFailed(Result) /\ Result.error = "wallet not configured"

\* C8 as stated: checkDefaultAndBan and repay with no key and no delegated
\* address for their role fail with "signer not configured" and make no
\* network call.
C8_NoSignerFails ==
    (/\ pc = "returned" /\ inv.tool \in {"checkDefaultAndBan", "repay"}
     /\ NoSignerConfigured)
    => SignerNotConfigured /\ Calls = <<>> /\ NothingBuilt

\* C8 amended: with no key and no delegated address for the role, repay,
\* and checkDefaultAndBan given a well-formed borrower address, fail with
\* "signer not configured"; checkDefaultAndBan given a malformed address
\* fails with "invalid borrower address"; no network call is made in either
\* case.
C8_NoSignerFailsValidAddress ==
    (/\ pc = "returned" /\ inv.tool \in {"checkDefaultAndBan", "repay"}
     /\ NoSignerConfigured)
    => /\ IsFailed(Result) /\ Calls = <<>> /\ NothingBuilt
       /\ (inv.tool = "repay" \/ IsAddress(inv.in.address)) => SignerNotConfigured
       /\ (inv.tool = "checkDefaultAndBan" /\ ~IsAddress(inv.in.address))
             => Result.error = "Invalid borrower address supplied"

C8_Witness ==
    /\ pc = "returned" /\ inv.tool = "repay" /\ NoSignerConfigured
    /\ Cfg.private_key = "kD"
    /\ SignerNotConfigured /\ Calls = <<>>

\* C9: no tool handler raises to its caller, whatever the input.
C9_NoHandlerRaises == pc = "returned" => ~Result.raised

\* C10: a write handler that returns, returns exactly one variant: Sent (a
\* broadcast result without an error field), Pending (a MetaMask request)
\* or Failed (a reason); a broadcast result with an error field is returned
\* as Failed, and Pending is never returned after a broadcast.
C10_ExactlyOneVariant ==
    (pc = "returned" /\ inv.tool \in WriteTools /\ ~Result.raised)
    => /\ Cardinality({v \in {"Sent", "Pending", "Failed"} :
               \/ v = "Sent" /\ IsSent(Result)
               \/ v = "Pending" /\ IsPending(Result)
               \/ v = "Failed" /\ IsFailed(Result)}) = 1
       /\ IsSent(Result) => /\ Result.sentError = None /\ Result.txHash # None
                            /\ Result.error = None /\ inv.out.tx.broadcast
       /\ IsPending(Result) => /\ Result.error = None /\ inv.out.req.built
                               /\ ~inv.out.tx.broadcast /\ ~Made("sign_send")
       /\ IsFailed(Result) => ~Result.sent /\ ~Result.metamask
       /\ (inv.out.tx.broadcast /\ Env.local.how = "errdict") => IsFailed(Result)

C10_Witness ==
    /\ pc = "returned" /\ inv.tool = "deposit"
    /\ inv.out.tx.broadcast /\ Env.local.how = "errdict"
    /\ IsFailed(Result) /\ Result.error = "nonce too low"


\* The number of times the invocation made a network call.
Count(call) == Cardinality({i \in 1..Len(Calls) : Calls[i] = call})

\* The calls only the local path makes (the delegated path reads the chain
\* id too).
LocalCalls == {"fees", "nonce", "build", "sign_send"}

LocalAttempted == \E c \in LocalCalls : Made(c)

\* C11: one invocation of a write handler fetches the nonce at most once
\* and broadcasts at most once, whatever its outcome, and once the local
\* path was entered no MetaMask request is built.
C11_NoAutomaticRetry ==
    (pc = "returned" /\ inv.tool \in WriteTools)
    => /\ Count("nonce") <= 1 /\ Count("sign_send") <= 1 /\ Count("build") <= 1
       /\ LocalAttempted => ~inv.out.req.built /\ ~Made("mm_build") /\ ~IsPending(Result)

C11_Witness ==
    /\ pc = "returned" /\ inv.tool = "withdraw"
    /\ Env.local.at = "sign_send" /\ Env.local.how = "exc"
    /\ Cfg.role_addresses.Lender = WalletOf.Lender
    /\ Count("nonce") = 1 /\ Count("sign_send") = 1
    /\ IsFailed(Result) /\ ~inv.out.req.built

\* C12: when the page passes no private key to the toolkit (signing role
\* 'Read-only', or no key entered for the selected role), no invocation
\* signs and broadcasts a transaction, even with PRIVATE_KEY in the
\* environment.
C12_NoKeyNoServerSigning ==
    (/\ pc = "returned" /\ inv.tool \in WriteTools
     /\ Cfg.private_key = None
     /\ \A r \in Roles : Cfg.role_private_keys[r] = None /\ Cfg.role_addresses[r] = None)
    => ~inv.out.tx.built /\ ~Made("sign_send") /\ ~IsSent(Result)

\* int(amt * scale) of _to_token_units, the value its try branch returns.
Scaled(amount) == DecToInt(DecMulScale(amount, NativeDecimals))

AmountTools == {"deposit", "withdraw", "openLoan"}

\* C14: for deposit, withdraw and openLoan an amount that does not parse
\* as a decimal gives a Failed result and nothing is built; the amount of
\* every transaction or request that is built is the scaled amount, never
\* the truncated int(amount) of the fallback.
C14_NonNumericIsInvalidAmount ==
    (pc = "returned" /\ inv.tool \in AmountTools)
    => /\ inv.in.amount.kind = "text" =>
            /\ IsFailed(Result) /\ NothingBuilt
            /\ (inv.tool # "openLoan" \/ IsAddress(inv.in.address))
                  => Result.error = "Invalid amount supplied"
       /\ inv.out.tx.built => inv.out.tx.call.amount = Scaled(inv.in.amount)
       /\ inv.out.req.built => inv.out.req.call.amount = Scaled(inv.in.amount)

C14_Witness ==
    /\ pc = "returned" /\ inv.tool = "deposit" /\ inv.in.amount.kind = "text"
    /\ UsableKey /\ IsFailed(Result) /\ Result.error = "Invalid amount supplied"
    /\ NothingBuilt

C14_WitnessBuilt ==
    /\ pc = "returned" /\ inv.tool = "withdraw" /\ inv.in.amount = Units50
    /\ inv.out.tx.built /\ inv.out.tx.call.amount = NatInt(50)
    /\ IntOfAmount(inv.in.amount) = NatInt(0)

\* The configuration with the role's key removed and a wallet address
\* assigned to the role: the one under which the handler delegates.
Delegated(cfg, role) ==
    [cfg EXCEPT !.role_private_keys[role] = None, !.private_key = None, !.env_key = None,
                !.role_addresses[role] = WalletOf[role]]

\* C15: the request the delegated path builds holds the call the local
\* path builds for the same inputs (function, arguments, attached value);
\* only deposit and repay attach a value, the amount; the delegated path
\* fetches no nonce, signs nothing and broadcasts nothing.
C15_DelegatedBuildsSameCall ==
    (pc = "returned" /\ inv.tool \in WriteTools)
    => /\ inv.out.req.built =>
            /\ ~inv.out.tx.built /\ ~inv.out.tx.broadcast
            /\ ~Made("nonce") /\ ~Made("sign_send") /\ ~Made("build")
            /\ IF inv.tool \in {"deposit", "repay"}
               THEN inv.out.req.call.value = inv.out.req.call.amount
               ELSE inv.out.req.call.value = NoInt
       /\ (inv.out.tx.built /\ Env.mm = "ok") =>
            LET alt == Handle(inv.tool, [inv.in EXCEPT !.cfg = Delegated(Cfg, inv.role)])
            IN  /\ alt.req.built /\ ~alt.tx.built
                /\ alt.req.call = inv.out.tx.call

C15_Witness ==
    /\ pc = "returned" /\ inv.tool = "deposit" /\ inv.in.amount = Units50
    /\ inv.out.tx.built /\ inv.out.tx.call.value = NatInt(50) /\ Env.mm = "ok"
    /\ Handle("deposit", [inv.in EXCEPT !.cfg = Delegated(Cfg, "Lender")]).req.call.value
          = NatInt(50)

\* C18: a ContractLogicError raised while the local transaction is built
\* or sent is returned as Failed with the contract's reason unchanged;
\* the rejected call is the last network call of the invocation and no
\* MetaMask request is built.
C18_ContractRejectionVerbatim ==
    (/\ pc = "returned" /\ inv.tool \in WriteTools /\ LocalAttempted
     /\ Made(Env.local.at) /\ Env.local.how = "revert")
    => /\ IsFailed(Result)
       /\ Result.error = "Contract rejected" /\ Result.detail = Env.local.reason
       /\ Calls[Len(Calls)] = Env.local.at
       /\ Env.local.at = "build" => ~Made("sign_send") /\ ~inv.out.tx.broadcast
       /\ Count("sign_send") <= 1
       /\ ~inv.out.req.built /\ ~Made("mm_build")

C18_Witness ==
    /\ pc = "returned" /\ inv.tool = "deposit" /\ LocalAttempted
    /\ Env.local = [at |-> "build", how |-> "revert", reason |-> "execution reverted: paused"]
    /\ Cfg.role_addresses.Lender = WalletOf.Lender
    /\ IsFailed(Result) /\ Result.detail = "execution reverted: paused"
    /\ ~Made("sign_send") /\ ~inv.out.req.built

\* The amount is zero, negative, or does not parse as a decimal.
InvalidAmount(m) == m.kind = "text" \/ (m.kind = "fin" /\ (m.neg \/ m.coef = <<>>))

\* C19: deposit, withdraw and openLoan given an amount that is zero,
\* negative or not a decimal return Failed without any network call: no
\* view read, no nonce or fee fetch, no broadcast, no MetaMask request.
C19_InvalidAmountNoNetwork ==
    (pc = "returned" /\ inv.tool \in AmountTools /\ InvalidAmount(inv.in.amount))
    => IsFailed(Result) /\ Calls = <<>> /\ NothingBuilt /\ inv.out.status_address = None

C19_Witness ==
    /\ pc = "returned" /\ inv.tool = "withdraw" /\ inv.in.amount = Dec(<<>>, 0)
    /\ UsableKey /\ Cfg.role_addresses.Lender # None
    /\ IsFailed(Result) /\ Result.error = "Amount must be greater than zero" /\ Calls = <<>>

ViewTools == {"withdraw", "repay", "openLoan", "getLoan", "lenderStatus"}

\* The environment with the aggregated views present where they were
\* absent and absent where they were present.
OtherMode(env) ==
    [env EXCEPT !.loanStatusExposed = ~@, !.lenderStatusExposed = ~@]

\* C20: _loan_status and _lender_status return the same tuple, in the
\* order (active, principal, outstanding, startTime, dueTime, banned) and
\* (totalDeposited, totalWithdrawn, balance, unlockable), whether the
\* aggregated view is present or rebuilt from the fallback calls, and no
\* tuple when a call fails; every handler that reads them returns the
\* same result and builds the same call in both modes.
C20_FallbackEquivalent ==
    (pc = "returned" /\ inv.tool \in ViewTools)
    => /\ LET alt == Handle(inv.tool, [inv.in EXCEPT !.env = OtherMode(Env)])
          IN  alt.result = Result /\ alt.tx = inv.out.tx /\ alt.req = inv.out.req
       /\ loan_status(Env).ok = Env.loan_ok
       /\ loan_status(Env).t = IF Env.loan_ok THEN LoanStatusView(Env.loan) ELSE <<>>
       /\ lender_status(Env).ok = Env.lender_ok
       /\ lender_status(Env).t = IF Env.lender_ok THEN Env.lender ELSE <<>>

C20_Witness ==
    /\ pc = "returned" /\ inv.tool = "repay" /\ ~Env.loanStatusExposed /\ Env.loan_ok
    /\ Made("view:getLoan") /\ Made("view:isBanned")
    /\ Env.loan.principal = 20 /\ Env.loan.outstanding = 10
    /\ inv.out.tx.built /\ inv.out.tx.call.amount = NatInt(10)

C20_WitnessPartial ==
    /\ pc = "returned" /\ inv.tool = "lenderStatus" /\ ~Env.lenderStatusExposed
    /\ ~Env.lender_ok /\ Env.lender_fail_at = 3
    /\ Made("view:totalWithdrawn") /\ IsFailed(Result) /\ Result.data = <<>>

(***************************************************************************)
(* Claims about the wallet slot, checked under SpecWallet.  Every step of  *)
(* SpecWallet is one script run, and run' holds that run's inputs.         *)
(***************************************************************************)
IssueButtons == {"connect", "switch_network", "send_transaction"}

\* C1: every command issued in a slot carries a sequence strictly greater
\* than the sequence of every command issued before it in that slot, also
\* when two commands are issued at the same clock reading.
C1_SequencesStrictlyIncrease ==
    \A i \in 1..Len(issued) : \A j \in 1..Len(issued) :
        i < j => issued[i].sequence < issued[j].sequence

\* C2: a run whose component value does not carry the pending command's
\* sequence (or that finds no pending command) leaves every field of the
\* slot unchanged, and the outcome of a command other than the pending one
\* is never adopted: the pending command stays pending.
C2_StaleOutcomeIgnored ==
    [][/\ (run'.btn = "none" /\ run'.cv.set /\ ~Matches(mm_state.pending_command, run'.cv))
            => mm_state' = mm_state
       /\ (run'.btn = "none" /\ IsDict(mm_state.pending_command)
           /\ run'.cv.cmd \notin {0, mm_state.pending_command.idx})
            => /\ mm_state'.pending_command = mm_state.pending_command
               /\ mm_state'.last_result = mm_state.last_result]_vars

\* C3: a run whose component value carries the pending command's sequence
\* adopts the value as last_result and clears the pending command (a button
\* pressed in the same run then stores its new command, or pops the slot);
\* a displayed result with an error is shown as a failure and no receipt is
\* waited for, even if it has a txHash; without an error, a txHash is shown
\* as sent and its receipt is waited for.
C3_MatchingOutcomeAdopted ==
    /\ [][Matches(mm_state.pending_command, run'.cv) =>
            /\ run'.btn # "clear" =>
                 /\ mm_state'.last_result = run'.cv
                 /\ mm_state'.last_value = run'.cv
                 /\ mm_state'.pending_command.idx # mm_state.pending_command.idx
            /\ run'.btn \notin IssueButtons =>
                 /\ mm_state'.pending_command = NoPending
                 /\ run'.classified = run'.cv]_vars
    /\ [](run.classified.set =>
            /\ run.classified.error # None =>
                 run.shown.error /\ ~run.shown.sent /\ run.shown.receipt = "none"
            /\ (run.classified.error = None /\ run.classified.txHash # None) =>
                 ~run.shown.error /\ run.shown.sent /\ run.shown.receipt # "none")

C3_Witness ==
    /\ run.btn = "none" /\ run.adopted
    /\ mm_state.last_result = run.cv /\ mm_state.pending_command = NoPending
    /\ run.cv.error # None /\ run.cv.txHash # None
    /\ run.shown.error /\ run.shown.receipt = "none"

\* C13: a pending command stays pending, and no failure is recorded for
\* it, through every run in which the component returns nothing or a value
\* with another sequence and no button is pressed, however far the clock
\* advances; it stops being pending only in a run that gets a value with
\* its sequence, issues a new command, or clears the slot.
C13_PendingNeverTimesOut ==
    [][IsDict(mm_state.pending_command) =>
        /\ (run'.btn = "none" /\ ~Matches(mm_state.pending_command, run'.cv)) =>
              /\ mm_state'.pending_command = mm_state.pending_command
              /\ mm_state'.last_result = mm_state.last_result
        /\ mm_state'.pending_command # mm_state.pending_command =>
              \/ Matches(mm_state.pending_command, run'.cv)
              \/ run'.btn \in IssueButtons
              \/ run'.btn = "clear"]_vars

C13_Witness ==
    /\ IsDict(mm_state.pending_command)
    /\ mm_state.pending_command.sequence < clock
    /\ run.btn = "none" /\ run.cv.set /\ ~run.adopted
    /\ mm_state.last_value = run.cv /\ ~mm_state.last_result.set
    /\ issued[mm_state.pending_command.idx].delivered

(***************************************************************************)
(* Further claims about the handlers (SpecTools).                          *)
(***************************************************************************)
\* The outstanding balance of the borrower as the contract reports it.
Outstanding == NatInt(Env.loan.outstanding)

\* C22: repay is a full payoff: the transaction or MetaMask request it builds
\* calls repay with the outstanding balance read in this invocation as the
\* amount and as the attached value; when the loan status cannot be read,
\* the borrower is banned, the loan is not active or nothing is
\* outstanding, repay fails and builds nothing.
C22_RepayIsFullPayoff ==
    (pc = "returned" /\ inv.tool = "repay") =>
        /\ inv.out.tx.built =>
              /\ inv.out.tx.call.fn = "repay"
              /\ inv.out.tx.call.amount = Outstanding /\ inv.out.tx.call.value = Outstanding
        /\ inv.out.req.built =>
              /\ inv.out.req.call.fn = "repay"
              /\ inv.out.req.call.amount = Outstanding /\ inv.out.req.call.value = Outstanding
        /\ (~Env.loan_ok \/ Env.loan.banned \/ ~Env.loan.active \/ Env.loan.outstanding = 0)
              => IsFailed(Result) /\ NothingBuilt

\* A repay of an outstanding balance that differs from the principal was
\* broadcast.
C22_Witness ==
    /\ pc = "returned" /\ inv.tool = "repay" /\ IsSent(Result)
    /\ inv.out.tx.broadcast /\ inv.out.tx.call.value = Outstanding
    /\ Env.loan.outstanding # Env.loan.principal /\ Env.loan.outstanding > 0

\* A repay request for MetaMask was built.
C22_WitnessDelegated ==
    /\ pc = "returned" /\ inv.tool = "repay" /\ IsPending(Result)
    /\ inv.out.req.built /\ inv.out.req.call.value = Outstanding
    /\ Env.loan.outstanding > 0

\* A banned borrower with an active loan was refused.
C22_WitnessBanned ==
    /\ pc = "returned" /\ inv.tool = "repay" /\ IsFailed(Result)
    /\ Env.loan_ok /\ Env.loan.banned /\ Env.loan.active /\ Env.loan.outstanding > 0
    /\ Made("view:loanStatus")

\* An integer of base units that is strictly positive.
PositiveUnits(x) == ~x.raised /\ ~x.neg /\ ~AllZero(x.digits)

\* C24: every deposit, withdraw or openLoan transaction or MetaMask request
\* that is built carries a strictly positive amount of base units.
C24_BuiltAmountPositive ==
    (pc = "returned" /\ inv.tool \in {"deposit", "withdraw", "openLoan"}) =>
        /\ inv.out.tx.built => PositiveUnits(inv.out.tx.call.amount)
        /\ inv.out.req.built => PositiveUnits(inv.out.req.call.amount)

\* C25: in withdraw and repay, when a status was read, the address it was
\* read for is the address the built transaction or MetaMask request is
\* sent from.
C25_StatusAddressIsSender ==
    (/\ pc = "returned" /\ inv.tool \in {"withdraw", "repay"}
     /\ inv.out.status_address # None)
     =>
        /\ inv.out.tx.built => inv.out.tx.from = inv.out.status_address
        /\ inv.out.req.built => inv.out.req.from = inv.out.status_address

\* The default key: the private_key argument, else the environment's.
DefaultKey == IF Cfg.private_key # None THEN Cfg.private_key ELSE Cfg.env_key

\* C26: a transaction of deposit or withdraw is signed with the Lender
\* role's key, one of repay with the Borrower role's key, and one of an
\* Owner operation with the Owner role's key or, when there is none, with
\* the default key; the default key signs no Lender or Borrower operation.
C26_SignedWithOwnRoleKey ==
    (pc = "returned" /\ inv.tool \in WriteTools /\ inv.out.tx.signed_with # None) =>
        LET k == inv.out.tx.signed_with
        IN  /\ k # "bad"
            /\ inv.tool \in {"deposit", "withdraw"} => k = Cfg.role_private_keys.Lender
            /\ inv.tool = "repay" => k = Cfg.role_private_keys.Borrower
            /\ inv.tool \notin {"deposit", "withdraw", "repay"} =>
                  k = (IF Cfg.role_private_keys.Owner # None THEN Cfg.role_private_keys.Owner
                       ELSE DefaultKey)

\* A deposit was signed with the Lender key although a default key exists.
C26_Witness ==
    /\ pc = "returned" /\ inv.tool = "deposit" /\ inv.out.tx.broadcast
    /\ DefaultKey # None /\ inv.out.tx.signed_with = "kL" /\ DefaultKey # "kL"

\* An Owner operation was signed with the default key, no Owner key being
\* configured.
C26_WitnessOwnerFallback ==
    /\ pc = "returned" /\ inv.role = "Owner" /\ inv.out.tx.broadcast
    /\ Cfg.role_private_keys.Owner = None /\ inv.out.tx.signed_with = DefaultKey

\* A write operation whose inputs are valid and whose pre-checks pass.
Dispatched == pc = "returned" /\ inv.tool \in WriteTools /\ ValidInputs /\ PreChecksPass

AddressConfigured == Cfg.role_addresses[inv.role] # None

\* C27 as stated: a dispatched write operation takes the local path iff the
\* role has a usable key, returns Pending iff it has none and a role address
\* is configured, and fails with "signer not configured" iff it has neither;
\* it never raises.
C27_SignerResolution ==
    Dispatched =>
        /\ ~Result.raised
        /\ LocalAttempted <=> UsableKey
        /\ IsPending(Result) <=> (~UsableKey /\ AddressConfigured)
        /\ SignerNotConfigured <=> (~UsableKey /\ ~AddressConfigured)

\* C27 amended: a dispatched write operation takes the local path iff the
\* role has a usable key, the delegated path iff it has none and a role
\* address is configured, and fails with "signer not configured" iff it has
\* neither; on the delegated path it returns Pending iff the request could
\* be built, and otherwise the failure "Unable to build MetaMask tx"; a
\* malformed key counts as no key, and the handler never raises.
C27_SignerResolutionByPath ==
    Dispatched =>
        /\ ~Result.raised
        /\ LocalAttempted <=> UsableKey
        /\ Made("mm_build") <=> (~UsableKey /\ AddressConfigured)
        /\ SignerNotConfigured <=> (~UsableKey /\ ~AddressConfigured)
        /\ IsPending(Result) <=> (~UsableKey /\ AddressConfigured /\ Env.mm = "ok")
        /\ (~UsableKey /\ AddressConfigured /\ Env.mm # "ok")
              => IsFailed(Result) /\ Result.error = "Unable to build MetaMask tx"

\* A malformed key and a role address: the operation was delegated.
C27_Witness ==
    /\ Dispatched /\ Cfg.role_private_keys[inv.role] = "bad"
    /\ AddressConfigured /\ IsPending(Result) /\ ~LocalAttempted

\* The request could not be built: the delegated path returned a failure.
C27_WitnessRequestFailed ==
    /\ Dispatched /\ ~UsableKey /\ AddressConfigured
    /\ IsFailed(Result) /\ Made("mm_build") /\ ~SignerNotConfigured

\* C29: openLoan checks the borrower address, then the principal, then the
\* eligibility of the loan, and only then resolves the signer; a failed
\* check ends the operation with its own failure and nothing built, even
\* when no signer is configured: a bad address or principal before any
\* network call, an ineligible loan (banned borrower, active outstanding
\* loan, insufficient liquidity, unreadable status) after the views only.
C29_OpenLoanCheckOrder ==
    (pc = "returned" /\ inv.tool = "openLoan") =>
        /\ ~IsAddress(inv.in.address) =>
              /\ IsFailed(Result) /\ Result.error = "Invalid borrower address supplied"
              /\ Calls = <<>> /\ NothingBuilt
        /\ (IsAddress(inv.in.address) /\ ~PositiveAmount(inv.in.amount)) =>
              /\ Calls = <<>> /\ NothingBuilt
              /\ Result.raised => inv.in.amount.kind = "nan"
              /\ ~Result.raised =>
                    /\ IsFailed(Result)
                    /\ Result.error \in {"Invalid amount supplied", "Invalid amount",
                                         "Amount must be greater than zero"}
        /\ (IsAddress(inv.in.address) /\ PositiveAmount(inv.in.amount) /\ ~LoanCheckPasses) =>
              /\ IsFailed(Result) /\ NothingBuilt /\ ~LocalAttempted
              /\ Result.error \in {"Cannot open loan",
                                   "Cannot open loan: borrower has an active loan outstanding"}
              /\ \A i \in 1..Len(Calls) :
                    Calls[i] \in {"view:loanStatus", "view:getLoan", "view:isBanned",
                                  "view:availableLiquidity", "view:canOpenLoan"}
        /\ (IsAddress(inv.in.address) /\ PositiveAmount(inv.in.amount) /\ LoanCheckPasses) =>
              /\ SignerNotConfigured <=> (~UsableKey /\ ~AddressConfigured)
              /\ Calls # <<>> /\ Calls[1] \notin LocalCalls \cup {"mm_build"}

\* A banned borrower was refused although no signer is configured.
C29_Witness ==
    /\ pc = "returned" /\ inv.tool = "openLoan"
    /\ IsAddress(inv.in.address) /\ PositiveAmount(inv.in.amount)
    /\ ~Env.canOpenLoanExposed /\ Env.loan_ok /\ Env.loan.banned
    /\ NoSignerConfigured
    /\ IsFailed(Result) /\ Result.error = "Cannot open loan" /\ Calls # <<>>

\* Insufficient liquidity was refused although a usable key exists.
C29_WitnessLiquidity ==
    /\ pc = "returned" /\ inv.tool = "openLoan" /\ UsableKey
    /\ Result.detail = "Insufficient pool liquidity" /\ IsFailed(Result)
    /\ Made("view:availableLiquidity") /\ ~LocalAttempted

(***************************************************************************)
(* Further claims about the wallet slot (SpecWallet).                      *)
(***************************************************************************)
\* C28: once an outcome has been adopted, a later run that receives the
\* same component value while nothing is pending changes neither
\* last_result, pending_command, wallet_address nor wallet_chain, and no run
\* adopts that value again as the result of a command issued afterwards.
C28_OutcomeAppliedAtMostOnce ==
    [][(mm_state.last_result.set /\ run'.cv = mm_state.last_result) =>
          /\ (run'.btn = "none" /\ ~IsDict(mm_state.pending_command)) =>
                /\ mm_state'.last_result = mm_state.last_result
                /\ mm_state'.pending_command = mm_state.pending_command
                /\ mm_state'.wallet_address = mm_state.wallet_address
                /\ mm_state'.wallet_chain = mm_state.wallet_chain
          /\ ~Matches(mm_state.pending_command, run'.cv)]_vars

\* C28, first half alone: the re-delivery of the adopted value while
\* nothing is pending leaves the four fields unchanged.
C28_RedeliveryIsIdempotent ==
    [][(/\ mm_state.last_result.set /\ run'.cv = mm_state.last_result
        /\ run'.btn = "none" /\ ~IsDict(mm_state.pending_command))
          => /\ mm_state'.last_result = mm_state.last_result
             /\ mm_state'.pending_command = mm_state.pending_command
             /\ mm_state'.wallet_address = mm_state.wallet_address
             /\ mm_state'.wallet_chain = mm_state.wallet_chain]_vars

\* C21: a script run that waits for the receipt of the adopted transaction
\* ends with the receipt or with the "not yet available" warning; the wait
\* leaves last_result and pending_command as the reconciliation of that run
\* set them, so the result still carries the txHash and no error and a
\* later run waits again.
C21_ReceiptWaitNonFatal ==
    [][(run'.btn = "none" /\ run'.shown.receipt # "none") =>
          LET ms == Reconcile(WithDefaultAddress(mm_state), run'.cv)
          IN  /\ run'.shown.receipt \in {"ok", "timeout"}
              /\ run'.shown.sent /\ ~run'.shown.error
              /\ mm_state'.last_result = ms.last_result
              /\ mm_state'.pending_command = ms.pending_command
              /\ mm_state'.last_result.txHash # None
              /\ mm_state'.last_result.error = None]_vars

\* The outcome with a txHash was adopted in this run and the receipt was
\* not yet available.
C21_Witness ==
    /\ run.btn = "none" /\ run.adopted /\ run.cv.txHash # None
    /\ run.shown.receipt = "timeout"
    /\ mm_state.last_result = run.cv

\* A later run, in which nothing is adopted, obtains the receipt.
C21_WitnessPolledAgain ==
    /\ run.btn = "none" /\ ~run.adopted /\ ~run.cv.set
    /\ run.shown.receipt = "ok"

(***************************************************************************)
(* Claims about the tool runner (SpecRunner).                              *)
(***************************************************************************)
\* C23: setDepositLockSeconds and setMinScoreToBorrow run with the value 0:
\* the runner calls the handler with it and reports no missing parameter.
C23_ZeroReachesHandler ==
    (/\ runner.pc = "shown"
     /\ runner.tool \in {"setDepositLockSeconds", "setMinScoreToBorrow"}
     /\ inv.in.n = 0)
        => /\ runner.called /\ runner.missing = {}
           /\ runner.banner # "Missing required parameters"

\* C30: the "Tool completed" banner is displayed only when the handler was
\* called and returned a result that is not a failure.
C30_CompletedOnlyOnSuccess ==
    (runner.pc = "shown" /\ runner.banner = "Tool completed") =>
        /\ runner.called
        /\ ~inv.out.result.raised /\ ~IsFailed(inv.out.result)

(***************************************************************************)
(* Claims about the nonce of the local signing path (SpecNonce).           *)
(***************************************************************************)
\* call a comes before call b wherever b was made.
Before(calls, a, b) ==
    \A j \in 1..Len(calls) : calls[j] = b => \E i \in 1..(j - 1) : calls[i] = a

AllBefore(calls, as, b) == \A i \in 1..Len(as) : Before(calls, as[i], b)

Built(pr) == pr.tx_nonce # -1

\* C16: in the local signing path the nonce is read from the network in the
\* same invocation, after every pre-check has passed and before the
\* transaction is built, signed and broadcast, and the transaction carries
\* the value read by this invocation, never one read by an earlier one nor
\* one of a transaction accepted before the invocation began.
C16_NonceReadFreshPerInvocation ==
    \A p \in Sessions :
        LET pr == proc[p]
        IN  /\ AllBefore(pr.calls, PreCheckCalls(pr.op), "nonce")
            /\ Before(pr.calls, "nonce", "build")
            /\ Before(pr.calls, "build", "sign_send")
            /\ pr.nonce # -1 => pr.fetched >= pr.started
            /\ Built(pr) =>
                  /\ pr.nonce # -1 /\ pr.tx_nonce = pr.nonce
                  /\ \A i \in 1..pr.started : chain.log[i] # pr.tx_nonce

\* A second invocation of a session was sent with a nonce other than the
\* one its first invocation read.
C16_Witness ==
    \E p \in Sessions :
        /\ proc[p].n = 2 /\ proc[p].pc = "returned" /\ proc[p].result = "Sent"
        /\ proc[p].last_nonce # -1 /\ proc[p].tx_nonce # proc[p].last_nonce
        /\ proc[p].started >= 1

\* C17: two dispatches for the same signer that read the nonce with no
\* transaction accepted in between build transactions with the same nonce
\* (nothing makes the second wait), whereas a dispatch that begins after a
\* transaction of the signer was accepted builds with a strictly greater
\* nonce than that transaction's.
C17_RaceSameNonceSerialGreater ==
    /\ \A p, q \in Sessions :
          (p # q /\ Built(proc[p]) /\ Built(proc[q]) /\ proc[p].fetched = proc[q].fetched)
              => proc[p].tx_nonce = proc[q].tx_nonce
    /\ \A p \in Sessions :
          Built(proc[p]) => \A i \in 1..proc[p].started : proc[p].tx_nonce > chain.log[i]

\* Both sessions are about to broadcast transactions with the same nonce,
\* both dispatched after an accepted transaction and with a greater nonce.
C17_Witness ==
    \E p, q \in Sessions :
        /\ p # q
        /\ proc[p].pc = "local" /\ NextStep(proc[p]) = "sign_send"
        /\ proc[q].pc = "local" /\ NextStep(proc[q]) = "sign_send"
        /\ proc[p].tx_nonce = proc[q].tx_nonce
        /\ proc[p].started >= 1 /\ proc[q].started >= 1
        /\ proc[p].tx_nonce > chain.log[proc[p].started]

\* Of two transactions built with the same nonce one was accepted and the
\* other rejected by the network.
C17_WitnessDropped ==
    \E p, q \in Sessions :
        /\ p # q
        /\ proc[p].pc = "returned" /\ proc[p].result = "Sent"
        /\ proc[q].pc = "returned" /\ proc[q].result = "Failed"
        /\ Built(proc[q]) /\ proc[p].tx_nonce = proc[q].tx_nonce
        /\ proc[q].calls[Len(proc[q].calls)] = "sign_send"

(***************************************************************************)
(* Claims about the unit conversion (SpecUnits).                           *)
(***************************************************************************)
\* C5: converting base units to human units and back is the identity, for
\* every decimal exponent and every non-negative integer n.
C5_RoundTrip ==
    units.pc = "back" => ~units.back.raised /\ ~units.back.neg /\ units.back.digits = units.n

\* The round trip is exact as long as n has at most Prec digits.
RoundTripWithinPrec ==
    (units.pc = "back" /\ Len(units.n) <= Prec) =>
        ~units.back.raised /\ units.back.digits = units.n

====
